---- MODULE Spec2Model ----
(***************************************************************************)
(* Paged storage layer of my_db: the fixed-width row codec (row.rs), the   *)
(* Pager (pager.rs), the Table (table.rs) and the statement front end      *)
(* (statement.rs).                                                         *)
(*                                                                         *)
(* Representation.                                                         *)
(*   - A byte is a number in 0..255.  A String is the sequence of its      *)
(*     UTF-8 bytes.                                                        *)
(*   - A usize id is kept as four 16-bit limbs, most significant first, so *)
(*     that the whole 64-bit range is representable.                       *)
(*   - A Page ([u8; 4096]) and a file's content are zero-default byte      *)
(*     arrays, stored as the function from the offsets of their non-zero   *)
(*     bytes to those bytes (every other offset below the length reads 0). *)
(*     Two buffers are equal iff their stored functions are equal.         *)
(***************************************************************************)
EXTENDS Integers, Sequences, FiniteSets, TLC

VARIABLES
    nb_rows,    \* Table.nb_rows
    pages,      \* Pager.pages : [0..MAX_PAGES-1 -> slot], a slot absent or resident
    save_file,  \* Pager.save_file : None | the path of the open file
    disk,       \* the file system : [Paths -> file], a file missing or present
    file_path,  \* FILE_PATH : None | the path given on the command line
    written,    \* history: the rows of the successful write_row calls, in order
    saved,      \* history: per path, the rows written when the file was last saved
    pristine,   \* history: the table was created empty and only appended to
    used,       \* history: how many set_nb_rows calls and file operations were made
    last,       \* history: the last operation, its arguments and its result
    crow,       \* codec: the row being converted
    cres,       \* codec: its encoded bytes and the row decoded from them
    status,     \* the process: "starting", "running", "exited", "failed", "panicked"
    locks,      \* the TABLE and PAGER mutexes: their holder (0 when free), poisoned or not
    pc          \* per thread: the operation it is in and how far it has come

vars == <<nb_rows, pages, save_file, disk, file_path, written, saved, pristine,
          used, last, crow, cres, status, locks, pc>>

None == "None"

----------------------------------------------------------------------------
(* row.rs : sizes and ranges *)

IdMaxSize == 8
UsernameMaxSize == 32
EmailMaxSize == 255

ID_OFFSET == 0
\* A username field that starts on the last byte of the id.
USERNAME_OFFSET_Overlapping == ID_OFFSET + IdMaxSize - 1
USERNAME_OFFSET == ID_OFFSET + IdMaxSize
EMAIL_OFFSET == USERNAME_OFFSET + UsernameMaxSize
RowMaxSize == IdMaxSize + UsernameMaxSize + EmailMaxSize

\* A Range<usize> a..b as the set of its indices.
ID_RANGE == ID_OFFSET .. (ID_OFFSET + IdMaxSize - 1)
USERNAME_RANGE == USERNAME_OFFSET .. (USERNAME_OFFSET + UsernameMaxSize - 1)
EMAIL_RANGE == EMAIL_OFFSET .. (EMAIL_OFFSET + EmailMaxSize - 1)

\* arr[range] of a 0-based slice held as a 1-based sequence.
Slice(arr, lo, n) == SubSeq(arr, lo + 1, lo + n)

----------------------------------------------------------------------------
(* row.rs : Id *)

LimbBase == 256 * 256

\* usize::to_be_bytes
IdToBeBytes(id) ==
    SubSeq([k \in 1..IdMaxSize |->
              IF k % 2 = 1 THEN id[(k + 1) \div 2] \div 256 ELSE id[k \div 2] % 256],
           1, IdMaxSize)

\* usize::from_be_bytes
IdFromBeBytes(arr) ==
    <<arr[1] * 256 + arr[2], arr[3] * 256 + arr[4],
      arr[5] * 256 + arr[6], arr[7] * 256 + arr[8]>>

\* A small usize as an id.
IdOfNat(n) == <<0, 0, n \div LimbBase, n % LimbBase>>

----------------------------------------------------------------------------
(* row.rs : Username, Email *)

\* Vec::resize_with(n, || 0): truncates or pads with zeros to exactly n.
ResizeWith(bytes, n) == SubSeq(bytes \o [k \in 1..n |-> 0], 1, n)

IsCont(b) == b >= 128 /\ b <= 191

\* The number of continuation bytes a leading byte announces (-1: not a lead).
Utf8Need(b) ==
    IF b < 128 THEN 0
    ELSE IF b >= 194 /\ b <= 223 THEN 1
    ELSE IF b >= 224 /\ b <= 239 THEN 2
    ELSE IF b >= 240 /\ b <= 244 THEN 3
    ELSE -1

\* String::from_utf8's validity test (well-formed UTF-8, RFC 3629): every byte
\* that is not ASCII is a leading byte followed by the continuation bytes it
\* announces, or one of the continuation bytes of the leading byte before it.
IsUtf8(s) ==
    \A k \in {i \in 1..Len(s) : s[i] >= 128} :
      LET b == s[k] need == Utf8Need(b) IN
      IF IsCont(b) THEN
          \E j \in 1..3 :
            /\ k - j >= 1
            /\ Utf8Need(s[k - j]) >= j
            /\ \A i \in 1..(j - 1) : IsCont(s[k - i])
      ELSE
          /\ need >= 0
          /\ k + need <= Len(s)
          /\ \A j \in 1..need : IsCont(s[k + j])
          /\ (b = 224 => s[k + 1] >= 160)
          /\ (b = 237 => s[k + 1] <= 159)
          /\ (b = 240 => s[k + 1] >= 144)
          /\ (b = 244 => s[k + 1] <= 143)

SetMin(S) == CHOOSE k \in S : \A j \in S : k <= j
SetMax(S) == 0 - SetMin({0 - k : k \in S})

\* str::trim_matches(char::from(0)): strips the NUL characters at both ends.
TrimMatches0(s) ==
    LET nz == {k \in 1..Len(s) : s[k] # 0} IN
    IF nz = {} THEN <<>> ELSE SubSeq(s, SetMin(nz), SetMax(nz))

\* From<Username> for [u8; Username::MAX_SIZE]
UsernameToBytes(username) == ResizeWith(username, UsernameMaxSize)

\* TryFrom<[u8; MAX_SIZE]> for Username
UsernameFromBytes(arr) ==
    IF IsUtf8(arr) THEN <<"Ok", TrimMatches0(arr)>> ELSE <<"Err", "FromUtf8Error">>

\* From<Email> for [u8; Email::MAX_SIZE]
EmailToBytes(email) == ResizeWith(email, EmailMaxSize)

\* TryFrom<[u8; MAX_SIZE]> for Email
EmailFromBytes(arr) ==
    IF IsUtf8(arr) THEN <<"Ok", TrimMatches0(arr)>> ELSE <<"Err", "FromUtf8Error">>

----------------------------------------------------------------------------
(* row.rs : Row *)

\* Row::new
RowNew(id, username, email) == [id |-> id, username |-> username, email |-> email]

\* From<Row> for [u8; Row::MAX_SIZE]
RowToBytes(row) ==
    LET idb == IdToBeBytes(row.id)
        ub == UsernameToBytes(row.username)
        eb == EmailToBytes(row.email)
    IN SubSeq([k \in 1..RowMaxSize |->
                 IF k - 1 \in ID_RANGE THEN idb[k - ID_OFFSET]
                 ELSE IF k - 1 \in USERNAME_RANGE THEN ub[k - USERNAME_OFFSET]
                 ELSE IF k - 1 \in EMAIL_RANGE THEN eb[k - EMAIL_OFFSET]
                 ELSE 0],
              1, RowMaxSize)

\* TryFrom<&[u8]> for Row
RowFromBytes(arr) ==
    IF Len(arr) < RowMaxSize THEN <<"Err", "InvalidBytesSlice", Len(arr)>>
    ELSE
      LET id == IdFromBeBytes(Slice(arr, ID_OFFSET, IdMaxSize))
          u == UsernameFromBytes(Slice(arr, USERNAME_OFFSET, UsernameMaxSize))
      IN IF u[1] = "Err" THEN <<"Err", u[2], 0>>
         ELSE
           LET e == EmailFromBytes(Slice(arr, EMAIL_OFFSET, EmailMaxSize))
           IN IF e[1] = "Err" THEN <<"Err", e[2], 0>>
              ELSE <<"Ok", RowNew(id, u[2], e[2]), 0>>

----------------------------------------------------------------------------
(* pager.rs : Page, Pager *)

PageSize == 4096
MAX_PAGES == 100
HeaderSize == 8

Paths == {"p"}

\* buf[o] of a zero-default buffer.
Byte(buf, o) == IF o \in DOMAIN buf THEN buf[o] ELSE 0

\* &buf[off .. off + n] as a sequence.
ReadSlice(buf, off, n) == SubSeq([k \in 1..n |-> Byte(buf, off + k - 1)], 1, n)

\* buf[off .. off + Len(data)].copy_from_slice(data)
CopyFromSlice(buf, off, data) ==
    LET keep == {o \in DOMAIN buf : o < off \/ o >= off + Len(data)}
        new == {off + k - 1 : k \in {j \in 1..Len(data) : data[j] # 0}}
    IN [o \in keep \cup new |-> IF o \in new THEN data[o - off + 1] ELSE buf[o]]

\* Page::default : Box::new([0; Page::SIZE])
PageDefault == <<>>

Absent == [resident |-> FALSE, buf |-> <<>>]
Resident(buf) == [resident |-> TRUE, buf |-> buf]

\* [const { None }; Self::MAX_PAGES]
NoPages == [n \in 0..(MAX_PAGES - 1) |-> Absent]

Missing == [exists |-> FALSE, len |-> 0, bytes |-> <<>>]
File(len, bytes) == [exists |-> TRUE, len |-> len, bytes |-> bytes]

\* A read that gives up the bytes it got when the file ends inside the page.
ReadPageAtAllOrNothing(file, offset) ==
    LET src == {x \in DOMAIN file.bytes :
                    /\ x >= offset /\ x < offset + PageSize
                    /\ file.len >= offset + PageSize}
    IN [o \in {x - offset : x \in src} |-> file.bytes[o + offset]]

\* seek(Start(offset)) then read_exact(&mut page[..]) on a zeroed page: the bytes
\* the file holds from offset on are copied, an UnexpectedEof leaves the rest zero.
ReadPageAt(file, offset) ==
    LET src == {x \in DOMAIN file.bytes :
                    x >= offset /\ x < offset + PageSize /\ x < file.len}
    IN [o \in {x - offset : x \in src} |-> file.bytes[o + offset]]

\* Pager::get_page's file offset of a page.
GetPageOffset(page_num) == HeaderSize + PageSize * page_num

\* A get_page that reads the page from the file again on every call.
GetPageReloading(pgs, sf, dsk, page_num, io) ==
    IF page_num >= MAX_PAGES THEN <<"MaxPageReached", pgs>>
    ELSE IF sf # None THEN
        IF io = "err" THEN <<"IoError", pgs>>
        ELSE <<"Ok", [pgs EXCEPT ![page_num] =
                        Resident(ReadPageAt(dsk[sf], GetPageOffset(page_num)))]>>
    ELSE IF pgs[page_num].resident THEN <<"Ok", pgs>>
    ELSE <<"Ok", [pgs EXCEPT ![page_num] = Resident(PageDefault)]>>

\* A get_page that keeps the zeroed page in the slot when the seek or the
\* read fails.
GetPageResidentOnError(pgs, sf, dsk, page_num, io) ==
    IF page_num >= MAX_PAGES THEN <<"MaxPageReached", pgs>>
    ELSE IF pgs[page_num].resident THEN <<"Ok", pgs>>
    ELSE IF sf # None THEN
        IF io = "err"
        THEN <<"IoError", [pgs EXCEPT ![page_num] = Resident(PageDefault)]>>
        ELSE <<"Ok", [pgs EXCEPT ![page_num] =
                        Resident(ReadPageAt(dsk[sf], GetPageOffset(page_num)))]>>
    ELSE <<"Ok", [pgs EXCEPT ![page_num] = Resident(PageDefault)]>>

\* Pager::get_page.  io is the outcome of the seek and the read ("ok", "err");
\* the result is <<tag, pages after the call>>.
GetPage(pgs, sf, dsk, page_num, io) ==
    IF page_num >= MAX_PAGES THEN <<"MaxPageReached", pgs>>
    ELSE IF pgs[page_num].resident THEN <<"Ok", pgs>>
    ELSE IF sf # None THEN
        IF io = "err" THEN <<"IoError", pgs>>
        ELSE <<"Ok", [pgs EXCEPT ![page_num] =
                        Resident(ReadPageAt(dsk[sf], GetPageOffset(page_num)))]>>
    ELSE <<"Ok", [pgs EXCEPT ![page_num] = Resident(PageDefault)]>>

\* Pager::load_or_create_page.  The seek and the read_exact are unwrapped: an
\* I/O error, or a file that ends before offset + Page::SIZE, is a panic.  The
\* result is <<tag, page>>.
LoadOrCreatePage(sf, dsk, page_num, io) ==
    IF sf # None THEN
        LET offset == PageSize * page_num IN
        IF io = "err" THEN <<"Panic", PageDefault>>
        ELSE IF dsk[sf].len < offset + PageSize THEN <<"Panic", PageDefault>>
        ELSE <<"Ok", ReadPageAt(dsk[sf], offset)>>
    ELSE <<"Ok", PageDefault>>

\* Pager::get.  The result is <<tag, pages after the call>>; a failed assert!
\* or unwrap is the tag "Panic".
Get(pgs, sf, dsk, page_num, io) ==
    IF ~(page_num < MAX_PAGES) THEN <<"Panic", pgs>>
    ELSE IF pgs[page_num].resident THEN <<"Ok", pgs>>
    ELSE
      LET l == LoadOrCreatePage(sf, dsk, page_num, io) IN
      IF l[1] # "Ok" THEN <<l[1], pgs>>
      ELSE <<"Ok", [pgs EXCEPT ![page_num] = Resident(l[2])]>>

\* Pager::get_mut
GetMut(pgs, sf, dsk, page_num, io) ==
    IF ~(page_num < MAX_PAGES) THEN <<"Panic", pgs>>
    ELSE IF pgs[page_num].resident THEN <<"Ok", pgs>>
    ELSE
      LET l == LoadOrCreatePage(sf, dsk, page_num, io) IN
      IF l[1] # "Ok" THEN <<l[1], pgs>>
      ELSE <<"Ok", [pgs EXCEPT ![page_num] = Resident(l[2])]>>

\* Whether get_page touches the file.
GetPageDoesIo(pgs, sf, page_num) ==
    page_num < MAX_PAGES /\ ~pgs[page_num].resident /\ sf # None

\* self.pages.iter().flatten() : the resident pages in ascending slot order.
ResidentSlots(pgs) == {n \in 0..(MAX_PAGES - 1) : pgs[n].resident}

ResidentPages(pgs) ==
    LET R == ResidentSlots(pgs)
        Nth(j) == CHOOSE n \in R : Cardinality({m \in R : m < n}) = j - 1
    IN SubSeq([j \in 1..Cardinality(R) |-> pgs[Nth(j)].buf], 1, Cardinality(R))

\* The file made of `whole` buffers written one after the other, followed by
\* the first `part` bytes of the next one.
FileOfWrites(bufs, whole, part) ==
    LET js == {j \in 0..whole : j + 1 <= Len(bufs)}
        idx == UNION {{<<j, o>> : o \in {d \in DOMAIN bufs[j + 1] :
                                            j = whole => d < part}} : j \in js}
    IN File(whole * PageSize + part,
            [x \in {e[1] * PageSize + e[2] : e \in idx} |->
                bufs[(x \div PageSize) + 1][x % PageSize]])

NoFail == [kind |-> "none", k |-> 0, m |-> 0]
CreateFail == [kind |-> "create", k |-> 0, m |-> 0]
SeekFail == [kind |-> "seek", k |-> 0, m |-> 0]
WriteFail(k) == [kind |-> "write", k |-> k, m |-> 0]
ShortWrite(k, m) == [kind |-> "short", k |-> k, m |-> m]

\* A faulty choice of the file: a fixed path stands in when none is available.
SaveTargetDefaulted(sf, path) ==
    IF path # None THEN path ELSE IF sf # None THEN sf ELSE "p"

\* Pager::save_to_disk's choice of the file it writes: the path given, else the
\* open save file, else none.
SaveTarget(sf, path) == IF path # None THEN path ELSE sf

\* Pager::save_to_disk.  fail names the I/O step that fails, if any: File::create
\* or set_len ("create"), the seek after set_len ("seek"), the write of the k-th
\* resident page ("write"), or that write accepting only m bytes ("short").
\* The result is <<tag, disk after the call>>.
SaveToDisk(pgs, sf, dsk, path, fail) ==
    LET target == SaveTarget(sf, path)
        bufs == ResidentPages(pgs)
    IN IF target = None THEN <<"NoFileToWriteProvided", dsk>>
       ELSE IF fail.kind = "create" THEN <<"IoError", dsk>>
       ELSE IF fail.kind = "seek" /\ path = None THEN
           <<"IoError", [dsk EXCEPT ![target] = File(0, <<>>)]>>
       ELSE IF fail.kind = "write" /\ fail.k < Len(bufs) THEN
           <<"IoError", [dsk EXCEPT ![target] = FileOfWrites(bufs, fail.k, 0)]>>
       ELSE IF fail.kind = "short" /\ fail.k < Len(bufs) THEN
           <<"NotAllBytesWritten",
             [dsk EXCEPT ![target] = FileOfWrites(bufs, fail.k, fail.m)]>>
       ELSE <<"Ok", [dsk EXCEPT ![target] = FileOfWrites(bufs, Len(bufs), 0)]>>

\* Pager::set_open_save_file.  The result is <<tag, save_file, pages>>.
SetOpenSaveFile(pgs, sf, dsk, path, io) ==
    IF ~dsk[path].exists \/ io = "err" THEN <<"IoError", sf, pgs>>
    ELSE <<"Ok", path, NoPages>>

----------------------------------------------------------------------------
(* table.rs : Table *)

\* A faulty rows-per-page: the division rounded up.
ROWS_PER_PAGE_RoundedUp == (PageSize + RowMaxSize - 1) \div RowMaxSize

ROWS_PER_PAGE == PageSize \div RowMaxSize
MAX_ROWS == ROWS_PER_PAGE * MAX_PAGES

\* A faulty row_offset: the row number is not reduced modulo the page.
GetRowOffsetNoModulo(row_number) == row_number * RowMaxSize

\* Table::get_row : page_num and row_offset of a row.
GetRowPageNum(row_number) == row_number \div ROWS_PER_PAGE
GetRowOffset(row_number) == (row_number % ROWS_PER_PAGE) * RowMaxSize

\* A faulty page_num for the next row: the division rounded up.
WriteRowPageNumRoundedUp(n) == (n + ROWS_PER_PAGE - 1) \div ROWS_PER_PAGE

\* Table::write_row : page_num and row_offset of the next row.
WriteRowPageNum(n) == n \div ROWS_PER_PAGE
WriteRowOffset(n) == (n % ROWS_PER_PAGE) * RowMaxSize

\* Table::set_nb_rows
SetNbRows(n) == n

\* A faulty range test: the row count itself is taken for a row number.
GetRowOutOfRangeInclusive(row_number, n) == row_number > n

\* Table::get_row's range test.
GetRowOutOfRange(row_number, n) == row_number >= n

\* A get_row that hands the page over and leaves a fresh one in the slot.
GetRowConsuming(n, pgs, sf, dsk, row_number, io) ==
    IF GetRowOutOfRange(row_number, n) THEN
        [res |-> "None", val |-> None, pages |-> pgs, page |-> 0, off |-> 0]
    ELSE
      LET page_num == GetRowPageNum(row_number)
          g == GetPage(pgs, sf, dsk, page_num, io)
          row_offset == GetRowOffset(row_number)
      IN IF g[1] # "Ok" THEN
             [res |-> "Err", val |-> g[1], pages |-> g[2],
              page |-> page_num, off |-> 0]
         ELSE
           LET d == RowFromBytes(ReadSlice(g[2][page_num].buf, row_offset, RowMaxSize))
           IN [res |-> d[1], val |-> d[2],
               pages |-> [g[2] EXCEPT ![page_num] = Resident(PageDefault)],
               page |-> page_num, off |-> row_offset]

\* Table::get_row on a table of n rows.  res is "None", "Ok" (val the row) or
\* "Err" (val the error).
GetRow(n, pgs, sf, dsk, row_number, io) ==
    IF GetRowOutOfRange(row_number, n) THEN
        [res |-> "None", val |-> None, pages |-> pgs, page |-> 0, off |-> 0]
    ELSE
      LET page_num == GetRowPageNum(row_number)
          g == GetPage(pgs, sf, dsk, page_num, io)
          row_offset == GetRowOffset(row_number)
      IN IF g[1] # "Ok" THEN
             [res |-> "Err", val |-> g[1], pages |-> g[2],
              page |-> page_num, off |-> 0]
         ELSE
           LET d == RowFromBytes(ReadSlice(g[2][page_num].buf, row_offset, RowMaxSize))
           IN [res |-> d[1], val |-> d[2], pages |-> g[2],
               page |-> page_num, off |-> row_offset]

\* A faulty capacity test: the table is full one row early.
TableFullOffByOne(n) == n = MAX_ROWS - 1

\* Table::write_row's capacity test.
TableFull(n) == n = MAX_ROWS

\* A faulty write_row that forgets to count the row.
WriteRowNbRowsForgotten(n) == n

\* Table::write_row's new row count: self.nb_rows += 1.
WriteRowNbRows(n) == n + 1

\* A faulty write_row that counts the row before it asks for the page.
WriteRowCountingFailures(n, pgs, sf, dsk, row, io) ==
    IF TableFull(n) THEN
        [res |-> "TableFull", nb_rows |-> n, pages |-> pgs, page |-> 0, off |-> 0]
    ELSE
      LET page_num == WriteRowPageNum(n)
          g == GetPage(pgs, sf, dsk, page_num, io)
          row_offset == WriteRowOffset(n)
      IN IF g[1] # "Ok" THEN
             [res |-> g[1], nb_rows |-> WriteRowNbRows(n), pages |-> g[2],
              page |-> page_num, off |-> 0]
         ELSE
             [res |-> "Ok", nb_rows |-> WriteRowNbRows(n),
              pages |-> [g[2] EXCEPT ![page_num] =
                           Resident(CopyFromSlice(@.buf, row_offset, RowToBytes(row)))],
              page |-> page_num, off |-> row_offset]

\* Table::write_row on a table of n rows.  res is "Ok", "TableFull" or the
\* get_page error.
WriteRow(n, pgs, sf, dsk, row, io) ==
    IF TableFull(n) THEN
        [res |-> "TableFull", nb_rows |-> n, pages |-> pgs, page |-> 0, off |-> 0]
    ELSE
      LET page_num == WriteRowPageNum(n)
          g == GetPage(pgs, sf, dsk, page_num, io)
          row_offset == WriteRowOffset(n)
      IN IF g[1] # "Ok" THEN
             [res |-> g[1], nb_rows |-> n, pages |-> g[2],
              page |-> page_num, off |-> 0]
         ELSE
             [res |-> "Ok", nb_rows |-> WriteRowNbRows(n),
              pages |-> [g[2] EXCEPT ![page_num] =
                           Resident(CopyFromSlice(@.buf, row_offset, RowToBytes(row)))],
              page |-> page_num, off |-> row_offset]

\* Pager::get_file_nb_rows, read by Table::default: the big-endian row count in
\* the first HeaderSize bytes of the open file (0 when the file is shorter).
GetFileNbRows(file) ==
    IF file.len < HeaderSize THEN <<0, 0, 0, 0>>
    ELSE IdFromBeBytes(ReadSlice(file.bytes, 0, HeaderSize))

\* The usize value of an id that fits the model's integers.
IdFits(id) == id[1] = 0 /\ id[2] = 0 /\ id[3] < 256
NatOfId(id) == id[3] * LimbBase + id[4]

----------------------------------------------------------------------------
(* save.rs, meta_command.rs *)

HeaderFail == [kind |-> "header", k |-> 0, m |-> 0]
ShortHeader(m) == [kind |-> "shortheader", k |-> 0, m |-> m]

\* The file that holds the first hlen bytes of get_nb_rows().to_be_bytes()
\* followed by the bytes of body.
WithHeader(n, hlen, body) ==
    LET hdr == IdToBeBytes(IdOfNat(n))
        hs == {x \in 0..(hlen - 1) : hdr[x + 1] # 0}
        bs == {o + hlen : o \in DOMAIN body.bytes}
    IN File(hlen + body.len,
            [x \in hs \cup bs |-> IF x < hlen THEN hdr[x + 1] ELSE body.bytes[x - hlen]])

\* write_table_to_disk(path) on a table of n rows whose page slots are pgs.
\* fail names the I/O step that fails, if any: File::create ("create"), the
\* write of the row count ("header", or "shortheader" when it accepts only m
\* bytes), the write of the k-th resident page ("write", "short").
\* The result is <<tag, disk after the call>>.
WriteTableToDisk(n, pgs, dsk, path, fail) ==
    LET bufs == ResidentPages(pgs) IN
    IF fail.kind = "create" THEN <<"IoError", dsk>>
    ELSE IF fail.kind = "header" THEN
        <<"IoError", [dsk EXCEPT ![path] = File(0, <<>>)]>>
    ELSE IF fail.kind = "shortheader" THEN
        <<"NotAllBytesWritten",
          [dsk EXCEPT ![path] = WithHeader(n, fail.m, File(0, <<>>))]>>
    ELSE IF fail.kind = "write" /\ fail.k < Len(bufs) THEN
        <<"IoError",
          [dsk EXCEPT ![path] = WithHeader(n, HeaderSize, FileOfWrites(bufs, fail.k, 0))]>>
    ELSE IF fail.kind = "short" /\ fail.k < Len(bufs) THEN
        <<"NotAllBytesWritten",
          [dsk EXCEPT ![path] =
             WithHeader(n, HeaderSize, FileOfWrites(bufs, fail.k, fail.m))]>>
    ELSE <<"Ok",
           [dsk EXCEPT ![path] =
              WithHeader(n, HeaderSize, FileOfWrites(bufs, Len(bufs), 0))]>>

\* meta_command_save(buffer): arg is the word after ".save", if any, and fp is
\* FILE_PATH.  The result of write_table_to_disk is dropped (let _ = ...).
\* The result is <<tag, disk after the call, what write_table_to_disk returned>>.
MetaCommandSave(n, pgs, dsk, fp, arg, fail) ==
    LET target == IF arg # None THEN arg ELSE fp IN
    IF target = None THEN <<"NoFileToWriteProvided", dsk, None>>
    ELSE LET w == WriteTableToDisk(n, pgs, dsk, target, fail)
         IN <<"Ok", w[2], w[1]>>

----------------------------------------------------------------------------
(* statement.rs *)

\* A line of input as INSERT_REGEX sees it: its keyword, whether the regex
\* matches, whether the id capture parses as usize, and the three captures.
Buffer(kw, matches, id_parses, id, username, email) ==
    [kw |-> kw, matches |-> matches, id_parses |-> id_parses,
     id |-> id, username |-> username, email |-> email]

\* A faulty length test: one byte too many is let through.
UsernameTooLongOffByOne(username) == Len(username) > UsernameMaxSize + 1

\* prepare_statement's length tests.
UsernameTooLong(username) == Len(username) > UsernameMaxSize
EmailTooLong(email) == Len(email) > EmailMaxSize

\* prepare_statement.  The result is <<tag, statement or error, max size>>.
PrepareStatement(buffer) ==
    IF buffer.kw = "select" THEN <<"Ok", "Select", 0>>
    ELSE IF buffer.kw = "insert" THEN
        IF ~buffer.matches THEN <<"Err", "InvalidInsert", 0>>
        ELSE IF ~buffer.id_parses THEN <<"Err", "InvalidInsert", 0>>
        ELSE IF UsernameTooLong(buffer.username) THEN
            <<"Err", "StringTooLong username", UsernameMaxSize>>
        ELSE IF EmailTooLong(buffer.email) THEN
            <<"Err", "StringTooLong email", EmailMaxSize>>
        ELSE <<"Ok", "Insert", 0>>
    ELSE <<"Err", "UnrecognizedStatement", 0>>

\* The row of a prepared insert.
PreparedRow(buffer) == RowNew(buffer.id, buffer.username, buffer.email)

\* A faulty error result: the rows collected so far are dropped.
SelectErrorDiscards(result, get_row_error, pgs) ==
    [res |-> "Err", rows |-> <<>>, err |-> get_row_error, pages |-> pgs]

\* execute_select's error result: StatementOutputError::Select(result, get_row_error).
SelectError(result, get_row_error, pgs) ==
    [res |-> "Err", rows |-> result, err |-> get_row_error, pages |-> pgs]

\* execute_select's loop from row_i on; bad is the page whose load fails, if any.
RECURSIVE SelectLoop(_, _, _, _, _, _, _)
SelectLoop(n, pgs, sf, dsk, row_i, result, bad) ==
    IF row_i >= n THEN
        [res |-> "Ok", rows |-> result, err |-> None, pages |-> pgs]
    ELSE
      LET r == GetRow(n, pgs, sf, dsk, row_i,
                      IF GetRowPageNum(row_i) = bad THEN "err" ELSE "ok")
      IN IF r.res = "None" THEN
             SelectLoop(n, r.pages, sf, dsk, row_i + 1, result, bad)
         ELSE IF r.res = "Ok" THEN
             SelectLoop(n, r.pages, sf, dsk, row_i + 1, Append(result, r.val), bad)
         ELSE SelectError(result, r.val, r.pages)

\* execute_select
ExecuteSelect(n, pgs, sf, dsk, bad) == SelectLoop(n, pgs, sf, dsk, 0, <<>>, bad)

----------------------------------------------------------------------------
(* Inputs and bounds *)

MaxWrites == 2
MaxSets == 1
MaxDiskOps == 2
MaxSelectRows == 14

Str(n, b) == SubSeq([k \in 1..n |-> b], 1, n)

\* (1, "a", "a@x"), and a row whose email ends with a NUL character.
RowA == RowNew(IdOfNat(1), <<97>>, <<97, 64, 120>>)
RowNul == RowNew(IdOfNat(3), <<99>>, <<99, 0>>)
Rows == {RowA, RowNul}

ValidRow(row) ==
    Len(row.username) <= UsernameMaxSize /\ Len(row.email) <= EmailMaxSize

\* The row counts set_nb_rows is called with.
NbRowsChoices ==
    {ROWS_PER_PAGE - 1, MAX_ROWS - 1, MAX_ROWS + 1}

Buffers ==
    {Buffer("select", FALSE, FALSE, IdOfNat(0), <<>>, <<>>),
     Buffer("other", FALSE, FALSE, IdOfNat(0), <<>>, <<>>),
     Buffer("insert", FALSE, FALSE, IdOfNat(0), <<>>, <<>>),
     Buffer("insert", TRUE, FALSE, IdOfNat(0), Str(UsernameMaxSize + 1, 98), <<97>>)}
    \cup {Buffer("insert", TRUE, TRUE, IdOfNat(2), u, e) :
            u \in {Str(UsernameMaxSize, 98), Str(UsernameMaxSize + 1, 98)},
            e \in {Str(EmailMaxSize, 98), Str(EmailMaxSize + 1, 98)}}

Last(op, arg, res, val, n, page, off) ==
    [op |-> op, arg |-> arg, res |-> res, val |-> val, n |-> n,
     page |-> page, off |-> off]

CodecIdle == [stage |-> "idle", bytes |-> <<>>, dec |-> <<"None", None, 0>>]

\* The threads that call into the table, and a thread that is in no operation.
Threads == {1, 2}
Idle == [op |-> "idle", at |-> "idle", arg |-> None]

\* Mutex::new(..): not held, not poisoned.
MutexNew == [holder |-> 0, poisoned |-> FALSE]

\* A running process whose locks are free and whose threads are idle.
ProcInit ==
    /\ status = "running"
    /\ locks = [table |-> MutexNew, pager |-> MutexNew]
    /\ pc = [t \in Threads |-> Idle]

TableInit ==
    /\ nb_rows = 0
    /\ pages = NoPages
    /\ save_file = None
    /\ disk = [p \in Paths |-> Missing]
    /\ file_path = None
    /\ written = <<>>
    /\ saved = [p \in Paths |-> [known |-> FALSE, rows |-> <<>>]]
    /\ pristine = TRUE
    /\ used = [sets |-> 0, disk |-> 0]
    /\ last = Last("init", None, "Ok", None, 0, 0, 0)
    /\ ProcInit

Init ==
    /\ TableInit
    /\ crow = RowA
    /\ cres = CodecIdle

tableVars == <<nb_rows, pages, save_file, disk, file_path, written, saved, pristine,
               used, last>>
codecVars == <<crow, cres>>
procVars == <<status, locks, pc>>

----------------------------------------------------------------------------
(* Operations *)

\* Table::write_row(row)
DoWriteRow(row, io) ==
    /\ io = "err" =>
         ~TableFull(nb_rows) /\ GetPageDoesIo(pages, save_file, WriteRowPageNum(nb_rows))
    /\ LET w == WriteRow(nb_rows, pages, save_file, disk, row, io) IN
         /\ nb_rows' = w.nb_rows
         /\ pages' = w.pages
         /\ written' = IF w.res = "Ok" THEN Append(written, row) ELSE written
         /\ last' = Last("write_row", row, w.res, None, nb_rows, w.page, w.off)
    /\ UNCHANGED <<save_file, disk, saved, pristine, used, file_path, codecVars, procVars>>

\* Table::get_row(row_number)
DoGetRow(row_number, io) ==
    /\ io = "err" =>
         /\ ~GetRowOutOfRange(row_number, nb_rows)
         /\ GetPageDoesIo(pages, save_file, GetRowPageNum(row_number))
    /\ LET r == GetRow(nb_rows, pages, save_file, disk, row_number, io) IN
         /\ pages' = r.pages
         /\ last' = Last("get_row", row_number, r.res, r.val, nb_rows, r.page, r.off)
    /\ UNCHANGED <<nb_rows, save_file, disk, written, saved, pristine, used, file_path, codecVars, procVars>>

\* Table::set_nb_rows(n)
DoSetNbRows(n) ==
    /\ nb_rows' = SetNbRows(n)
    /\ pristine' = FALSE
    /\ used' = [used EXCEPT !.sets = @ + 1]
    /\ last' = Last("set_nb_rows", n, "Ok", None, nb_rows, 0, 0)
    /\ UNCHANGED <<pages, save_file, disk, written, saved, file_path, codecVars, procVars>>

\* prepare_statement(buffer), then execute_statement on what it returns.
DoStatement(buffer, bad) ==
    LET st == PrepareStatement(buffer) IN
    IF st[1] = "Err" THEN
        /\ bad = -1
        /\ last' = Last("prepare", buffer, st[2], st[3], nb_rows, 0, 0)
        /\ UNCHANGED <<nb_rows, pages, save_file, disk, written, saved, pristine,
                       used, file_path, codecVars, procVars>>
    ELSE IF st[2] = "Select" THEN
        /\ bad # -1 =>
             /\ nb_rows > 0
             /\ bad <= GetRowPageNum(nb_rows - 1)
             /\ GetPageDoesIo(pages, save_file, bad)
        /\ LET x == ExecuteSelect(nb_rows, pages, save_file, disk, bad) IN
             /\ pages' = x.pages
             /\ last' = Last("select", None, x.res, [rows |-> x.rows, err |-> x.err],
                             nb_rows, 0, 0)
        /\ UNCHANGED <<nb_rows, save_file, disk, written, saved, pristine, used,
                       file_path, codecVars, procVars>>
    ELSE
        /\ bad \in {-1, WriteRowPageNum(nb_rows)}
        /\ bad # -1 =>
             ~TableFull(nb_rows) /\ GetPageDoesIo(pages, save_file, bad)
        /\ LET row == PreparedRow(buffer)
               w == WriteRow(nb_rows, pages, save_file, disk, row,
                             IF bad = -1 THEN "ok" ELSE "err")
           IN /\ nb_rows' = w.nb_rows
              /\ pages' = w.pages
              /\ written' = IF w.res = "Ok" THEN Append(written, row) ELSE written
              /\ last' = Last("insert", row, w.res, None, nb_rows, w.page, w.off)
        /\ UNCHANGED <<save_file, disk, saved, pristine, used, file_path, codecVars, procVars>>

\* The ways a save can fail on its I/O.
ShortLen == RowMaxSize
SaveFails(path) ==
    LET n == Len(ResidentPages(pages)) IN
    IF path = None /\ save_file = None THEN {NoFail}
    ELSE {NoFail, CreateFail}
         \cup (IF path = None THEN {SeekFail} ELSE {})
         \cup {WriteFail(k) : k \in 0..(n - 1)}
         \cup {ShortWrite(k, ShortLen) : k \in 0..(n - 1)}

\* Pager::save_to_disk(path)
DoSaveToDisk(path, fail) ==
    /\ fail \in SaveFails(path)
    /\ LET r == SaveToDisk(pages, save_file, disk, path, fail)
           target == SaveTarget(save_file, path)
       IN /\ disk' = r[2]
          /\ saved' = IF target = None \/ fail.kind = "create" THEN saved
                      ELSE [saved EXCEPT ![target] =
                              [known |-> r[1] = "Ok" /\ pristine,
                               rows |-> IF r[1] = "Ok" /\ pristine THEN written ELSE <<>>]]
          /\ last' = Last("save_to_disk", path, r[1], fail.kind, nb_rows, 0, 0)
    /\ used' = [used EXCEPT !.disk = @ + 1]
    /\ UNCHANGED <<nb_rows, pages, save_file, written, pristine, file_path, codecVars, procVars>>

\* Pager::set_open_save_file(path)
DoSetOpenSaveFile(path, io) ==
    /\ io = "err" => disk[path].exists
    /\ LET r == SetOpenSaveFile(pages, save_file, disk, path, io) IN
         /\ save_file' = r[2]
         /\ pages' = r[3]
         /\ pristine' = (pristine /\ r[1] # "Ok")
         /\ last' = Last("set_open_save_file", path, r[1], None, nb_rows, 0, 0)
    /\ used' = [used EXCEPT !.disk = @ + 1]
    /\ UNCHANGED <<nb_rows, disk, written, saved, file_path, codecVars, procVars>>

\* A fresh Pager and Table over an existing file: Pager::new(Some(path)),
\* then Table::default.
DoOpen(path) ==
    /\ disk[path].exists
    /\ IdFits(GetFileNbRows(disk[path]))
    /\ nb_rows' = NatOfId(GetFileNbRows(disk[path]))
    /\ pages' = NoPages
    /\ save_file' = path
    /\ written' = <<>>
    /\ pristine' = FALSE
    /\ used' = [used EXCEPT !.disk = @ + 1]
    /\ last' = Last("open", path, "Ok", None, nb_rows, 0, 0)
    /\ UNCHANGED <<disk, saved, file_path, codecVars, procVars>>

\* Pager::get_page(page_num)
DoGetPage(page_num, io) ==
    /\ io = "err" => GetPageDoesIo(pages, save_file, page_num)
    /\ LET g == GetPage(pages, save_file, disk, page_num, io) IN
         /\ pages' = g[2]
         /\ last' = Last("get_page", page_num, g[1], io, nb_rows, 0, 0)
    /\ UNCHANGED <<nb_rows, save_file, disk, written, saved, pristine, used,
                   file_path, codecVars, procVars>>

\* Pager::get(page_num)
DoGet(page_num, io) ==
    /\ io = "err" => GetPageDoesIo(pages, save_file, page_num)
    /\ LET g == Get(pages, save_file, disk, page_num, io) IN
         /\ pages' = g[2]
         /\ last' = Last("get", page_num, g[1], io, nb_rows, 0, 0)
    /\ UNCHANGED <<nb_rows, save_file, disk, written, saved, pristine, used,
                   file_path, codecVars, procVars>>

\* Pager::get_mut(page_num)
DoGetMut(page_num, io) ==
    /\ io = "err" => GetPageDoesIo(pages, save_file, page_num)
    /\ LET g == GetMut(pages, save_file, disk, page_num, io) IN
         /\ pages' = g[2]
         /\ last' = Last("get_mut", page_num, g[1], io, nb_rows, 0, 0)
    /\ UNCHANGED <<nb_rows, save_file, disk, written, saved, pristine, used,
                   file_path, codecVars, procVars>>

\* The ways write_table_to_disk can fail on its I/O.
MetaSaveFails(arg) ==
    IF arg = None /\ file_path = None THEN {NoFail}
    ELSE {NoFail, CreateFail, HeaderFail, ShortHeader(1)}
         \cup {WriteFail(k) : k \in 0..(Len(ResidentPages(pages)) - 1)}

\* do_meta_command(".save") or do_meta_command(".save <arg>")
DoMetaCommandSave(arg, fail) ==
    /\ fail \in MetaSaveFails(arg)
    /\ LET r == MetaCommandSave(nb_rows, pages, disk, file_path, arg, fail)
           target == IF arg # None THEN arg ELSE file_path
       IN /\ disk' = r[2]
          /\ saved' = IF target = None \/ fail.kind = "create" THEN saved
                      ELSE [saved EXCEPT ![target] = [known |-> FALSE, rows |-> <<>>]]
          /\ last' = Last(".save", arg, r[1], r[3], nb_rows, 0, 0)
    /\ used' = [used EXCEPT !.disk = @ + 1]
    /\ UNCHANGED <<nb_rows, pages, save_file, written, pristine, file_path, codecVars, procVars>>

\* The row numbers get_row is called with.
RowNumbers == {0, nb_rows - 1, nb_rows, MAX_ROWS} \cap Nat

\* The bounds of the exploration.
MayWrite == Len(written) < MaxWrites
MaySet == used.sets < MaxSets
MayDisk == used.disk < MaxDiskOps
MayRun(buffer) ==
    /\ buffer.kw = "select" => nb_rows <= MaxSelectRows
    /\ PrepareStatement(buffer)[2] = "Insert" => MayWrite

\* The table and the statements over a Pager with no backing file.
Next ==
    \/ \E row \in Rows : MayWrite /\ DoWriteRow(row, "ok")
    \/ \E i \in RowNumbers : DoGetRow(i, "ok")
    \/ \E n \in NbRowsChoices : MaySet /\ DoSetNbRows(n)
    \/ \E b \in Buffers : MayRun(b) /\ DoStatement(b, -1)

Spec == Init /\ [][Next]_vars

\* The table over a Pager that saves to and opens files.
SelectBuffer == Buffer("select", FALSE, FALSE, IdOfNat(0), <<>>, <<>>)

DiskNext ==
    \/ \E row \in Rows, io \in {"ok", "err"} : MayWrite /\ DoWriteRow(row, io)
    \/ \E i \in RowNumbers, io \in {"ok", "err"} : DoGetRow(i, io)
    \/ \E bad \in -1..1 : MayRun(SelectBuffer) /\ DoStatement(SelectBuffer, bad)
    \/ \E fp \in Paths \cup {None} :
         \E fail \in SaveFails(fp) : MayDisk /\ DoSaveToDisk(fp, fail)
    \/ \E fp \in Paths, io \in {"ok", "err"} : MayDisk /\ DoSetOpenSaveFile(fp, io)
    \/ \E fp \in Paths : MayDisk /\ DoOpen(fp)

SpecDisk == Init /\ [][DiskNext]_vars

\* A table filled from empty to capacity, as test_insert_table_full does.
FillRow(n) == RowNew(IdOfNat(n), <<97>>, <<98>>)
FillBuffer(n) == Buffer("insert", TRUE, TRUE, IdOfNat(n), <<97>>, <<98>>)

FillNext ==
    \/ DoWriteRow(FillRow(nb_rows), "ok")
    \/ DoStatement(FillBuffer(nb_rows), -1)
    \/ \E i \in RowNumbers : DoGetRow(i, "ok")

SpecFill == Init /\ [][FillNext]_vars

\* Rows of every kind, written through write_row and through insert, and read
\* back by get_row and select.
\* A row whose username is one byte too long; a row whose username is one byte
\* too long because it ends with the two bytes of an e with diaeresis.
RowLong == RowNew(IdOfNat(4), Str(UsernameMaxSize + 1, 100), <<100>>)
RowCut == RowNew(IdOfNat(5), Str(UsernameMaxSize - 1, 101) \o <<195, 171>>, <<101>>)
SelectRows == {RowA, RowLong, RowCut}

\* insert 6 f f@x, insert 7 g g<NUL>, and an insert with a 33-byte username.
SelectInserts ==
    {Buffer("insert", TRUE, TRUE, IdOfNat(6), <<102>>, <<102, 64, 120>>),
     Buffer("insert", TRUE, TRUE, IdOfNat(7), <<103>>, <<103, 0>>),
     Buffer("insert", TRUE, TRUE, IdOfNat(8), Str(UsernameMaxSize + 1, 104), <<104>>)}

\* The rows the inserts that prepare_statement accepts write.
InsertedRows ==
    {PreparedRow(b) : b \in {x \in SelectInserts : PrepareStatement(x)[1] = "Ok"}}

SelectNext ==
    \/ \E row \in SelectRows : MayWrite /\ DoWriteRow(row, "ok")
    \/ \E b \in SelectInserts : MayRun(b) /\ DoStatement(b, -1)
    \/ MayRun(SelectBuffer) /\ DoStatement(SelectBuffer, -1)
    \/ \E i \in RowNumbers : DoGetRow(i, "ok")

SpecSelect == Init /\ [][SelectNext]_vars

\* A table created empty with no backing file, modified only by write_row,
\* with get_row, select, save_to_disk and .save in between.
MaxAppendRows == 15

AppendNext ==
    \/ nb_rows < MaxAppendRows /\ DoWriteRow(FillRow(nb_rows), "ok")
    \/ \E i \in RowNumbers : DoGetRow(i, "ok")
    \/ MayRun(SelectBuffer) /\ DoStatement(SelectBuffer, -1)
    \/ \E fp \in Paths \cup {None} :
         \E fail \in SaveFails(fp) : MayDisk /\ DoSaveToDisk(fp, fail)
    \/ \E arg \in Paths \cup {None} :
         \E fail \in MetaSaveFails(arg) : MayDisk /\ DoMetaCommandSave(arg, fail)

SpecAppend == Init /\ [][AppendNext]_vars

\* The Pager on its own: its page accessors, its saves and the .save command,
\* with or without a path given on the command line.
PageNums == {0, 1, MAX_PAGES}

PagerInit ==
    /\ nb_rows = 0
    /\ pages = NoPages
    /\ save_file = None
    /\ disk = [p \in Paths |-> Missing]
    /\ file_path \in {None} \cup Paths
    /\ written = <<>>
    /\ saved = [p \in Paths |-> [known |-> FALSE, rows |-> <<>>]]
    /\ pristine = TRUE
    /\ used = [sets |-> 0, disk |-> 0]
    /\ last = Last("init", None, "Ok", None, 0, 0, 0)
    /\ crow = RowA
    /\ cres = CodecIdle
    /\ ProcInit

PagerNext ==
    \/ \E n \in PageNums, io \in {"ok", "err"} : DoGetPage(n, io)
    \/ \E n \in PageNums : DoGet(n, "ok")
    \/ \E n \in PageNums : DoGetMut(n, "ok")
    \/ MayWrite /\ DoWriteRow(RowA, "ok")
    \/ \E fp \in Paths \cup {None} :
         \E fail \in SaveFails(fp) : MayDisk /\ DoSaveToDisk(fp, fail)
    \/ \E arg \in Paths \cup {None} :
         \E fail \in MetaSaveFails(arg) : MayDisk /\ DoMetaCommandSave(arg, fail)
    \/ \E fp \in Paths, io \in {"ok", "err"} : MayDisk /\ DoSetOpenSaveFile(fp, io)
    \/ \E fp \in Paths : MayDisk /\ DoOpen(fp)

SpecPager == PagerInit /\ [][PagerNext]_vars

----------------------------------------------------------------------------
(* Several threads calling execute_select, execute_insert and                *)
(* write_table_to_disk.  Each lock(), each call on the table behind the      *)
(* guard and each system call on a file is one step of its thread.           *)

\* TABLE.lock() by thread t: it blocks while another thread holds the mutex.
MutexLock(m, t) == [m EXCEPT !.holder = t]

\* A guard that is leaked: the mutex stays locked.
MutexKeptLocked(m) == m

\* The guard goes out of scope.
MutexUnlock(m) == [m EXCEPT !.holder = 0]

\* A Page or a header as a zero-default byte array.
BufOfSeq(bytes) == [o \in {x \in 0..(Len(bytes) - 1) : bytes[x + 1] # 0} |-> bytes[o + 1]]

\* file.write of the n bytes of buf at position pos of an open file: the file
\* grows to pos + n when it is shorter, a gap left by a truncation reads zero.
WriteAt(file, pos, buf, n) ==
    LET keep == {x \in DOMAIN file.bytes : x < pos \/ x >= pos + n}
        new == {pos + o : o \in DOMAIN buf}
    IN File(IF file.len > pos + n THEN file.len ELSE pos + n,
            [x \in keep \cup new |-> IF x \in new THEN buf[x - pos] ELSE file.bytes[x]])

At(t, op, at) == pc[t].op = op /\ pc[t].at = at
Goto(t, op, at, arg) == pc' = [pc EXCEPT ![t] = [op |-> op, at |-> at, arg |-> arg]]

\* execute_select: TABLE.lock()
TSelectLock(t) ==
    /\ pc[t].op = "idle"
    /\ locks.table.holder = 0 /\ ~locks.table.poisoned
    /\ locks' = [locks EXCEPT !.table = MutexLock(@, t)]
    /\ Goto(t, "select", "locked", None)
    /\ UNCHANGED <<tableVars, codecVars, status>>

\* execute_select: the loop over get_row, and the return that drops the guard.
TSelectScan(t) ==
    /\ At(t, "select", "locked")
    /\ LET x == ExecuteSelect(nb_rows, pages, save_file, disk, -1) IN
         /\ pages' = x.pages
         /\ last' = Last("select", None, x.res, [rows |-> x.rows, err |-> x.err],
                         nb_rows, 0, 0)
    /\ locks' = [locks EXCEPT !.table = MutexUnlock(@)]
    /\ pc' = [pc EXCEPT ![t] = Idle]
    /\ UNCHANGED <<nb_rows, save_file, disk, written, saved, pristine, used,
                   file_path, codecVars, status>>

\* execute_insert: TABLE.lock()
TInsertLock(t, row) ==
    /\ pc[t].op = "idle"
    /\ locks.table.holder = 0 /\ ~locks.table.poisoned
    /\ locks' = [locks EXCEPT !.table = MutexLock(@, t)]
    /\ Goto(t, "insert", "locked", row)
    /\ UNCHANGED <<tableVars, codecVars, status>>

\* execute_insert: table.write_row(row), and the return that drops the guard.
TInsertWrite(t) ==
    /\ At(t, "insert", "locked")
    /\ LET w == WriteRow(nb_rows, pages, save_file, disk, pc[t].arg, "ok") IN
         /\ nb_rows' = w.nb_rows
         /\ pages' = w.pages
         /\ written' = IF w.res = "Ok" THEN Append(written, pc[t].arg) ELSE written
         /\ last' = Last("insert", pc[t].arg, w.res, None, nb_rows, w.page, w.off)
    /\ locks' = [locks EXCEPT !.table = MutexUnlock(@)]
    /\ pc' = [pc EXCEPT ![t] = Idle]
    /\ UNCHANGED <<save_file, disk, saved, pristine, used, file_path, codecVars,
                   status>>

\* write_table_to_disk: File::create(path), which empties the file.
TSaveCreate(t, path) ==
    /\ pc[t].op = "idle"
    /\ disk' = [disk EXCEPT ![path] = File(0, <<>>)]
    /\ saved' = [saved EXCEPT ![path] = [known |-> FALSE, rows |-> <<>>]]
    /\ used' = [used EXCEPT !.disk = @ + 1]
    /\ Goto(t, "save", "created", path)
    /\ UNCHANGED <<nb_rows, pages, save_file, written, pristine, last, file_path,
                   codecVars, status, locks>>

\* write_table_to_disk: TABLE.lock()
TSaveLock(t) ==
    /\ At(t, "save", "created")
    /\ locks.table.holder = 0 /\ ~locks.table.poisoned
    /\ locks' = [locks EXCEPT !.table = MutexLock(@, t)]
    /\ Goto(t, "save", "locked", pc[t].arg)
    /\ UNCHANGED <<tableVars, codecVars, status>>

\* write_table_to_disk: file.write(&table.get_nb_rows().to_be_bytes())
TSaveHeader(t) ==
    /\ At(t, "save", "locked")
    /\ disk' = [disk EXCEPT ![pc[t].arg] =
                  WriteAt(@, 0, BufOfSeq(IdToBeBytes(IdOfNat(nb_rows))), HeaderSize)]
    /\ Goto(t, "save", "header", pc[t].arg)
    /\ UNCHANGED <<nb_rows, pages, save_file, written, saved, pristine, used, last,
                   file_path, codecVars, status, locks>>

\* write_table_to_disk: the writes of the resident pages, and the return that
\* drops the guard.
TSavePages(t) ==
    /\ At(t, "save", "header")
    /\ LET bufs == ResidentPages(pages)
           body == FileOfWrites(bufs, Len(bufs), 0)
       IN disk' = [disk EXCEPT ![pc[t].arg] = WriteAt(@, HeaderSize, body.bytes, body.len)]
    /\ last' = Last("save", pc[t].arg, "Ok", None, nb_rows, 0, 0)
    /\ locks' = [locks EXCEPT !.table = MutexUnlock(@)]
    /\ pc' = [pc EXCEPT ![t] = Idle]
    /\ UNCHANGED <<nb_rows, pages, save_file, written, saved, pristine, used,
                   file_path, codecVars, status>>

ThreadsNext ==
    \E t \in Threads :
        \/ nb_rows <= MaxSelectRows /\ TSelectLock(t)
        \/ TSelectScan(t)
        \/ MayWrite /\ TInsertLock(t, RowA)
        \/ TInsertWrite(t)
        \/ \E path \in Paths : MayDisk /\ TSaveCreate(t, path)
        \/ TSaveLock(t)
        \/ TSaveHeader(t)
        \/ TSavePages(t)

SpecThreads == Init /\ [][ThreadsNext]_vars

----------------------------------------------------------------------------
(* The locks one by one: each access to TABLE forces the LazyLock, whose    *)
(* first access runs Table::default under the PAGER mutex; select and       *)
(* insert take TABLE, then PAGER in get_row and write_row; save and the     *)
(* cursor operations take TABLE only.  Each lock() and each drop of a guard *)
(* is one step of its thread.                                               *)

LockOps == {"select", "insert", "save", "at_end", "is_end_of_table"}

\* The call of an operation; write_table_to_disk creates its file first.
LBegin(t, op) ==
    /\ pc[t].op = "idle"
    /\ op = "insert" => MayWrite
    /\ op = "save" => MayDisk
    /\ IF op = "save"
       THEN /\ disk' = [disk EXCEPT !["p"] = File(0, <<>>)]
            /\ saved' = [saved EXCEPT !["p"] = [known |-> FALSE, rows |-> <<>>]]
            /\ used' = [used EXCEPT !.disk = @ + 1]
       ELSE UNCHANGED <<disk, saved, used>>
    /\ Goto(t, op, "force", IF op = "insert" THEN RowA ELSE None)
    /\ UNCHANGED <<nb_rows, pages, save_file, written, pristine, last, file_path,
                   codecVars, status, locks>>

\* The dereference of TABLE: the first thread runs the initialiser, a thread
\* that comes while it runs waits for it, later ones pass.
LForce(t) ==
    /\ pc[t].at = "force"
    /\ status # "initialising"
    /\ IF status = "starting"
       THEN status' = "initialising" /\ Goto(t, pc[t].op, "init_lock_pager", pc[t].arg)
       ELSE status' = status /\ Goto(t, pc[t].op, "lock_table", pc[t].arg)
    /\ UNCHANGED <<tableVars, codecVars, locks>>

\* Table::default: PAGER.lock()
LInitLockPager(t) ==
    /\ pc[t].at = "init_lock_pager"
    /\ locks.pager.holder = 0
    /\ locks' = [locks EXCEPT !.pager = MutexLock(@, t)]
    /\ Goto(t, pc[t].op, "init_unlock_pager", pc[t].arg)
    /\ UNCHANGED <<tableVars, codecVars, status>>

\* Table::default: get_file_nb_rows(), the guard dropped, the LazyLock set.
LInitUnlockPager(t) ==
    /\ pc[t].at = "init_unlock_pager"
    /\ nb_rows' = IF save_file = None THEN 0 ELSE NatOfId(GetFileNbRows(disk[save_file]))
    /\ locks' = [locks EXCEPT !.pager = MutexUnlock(@)]
    /\ status' = "running"
    /\ Goto(t, pc[t].op, "lock_table", pc[t].arg)
    /\ UNCHANGED <<pages, save_file, disk, file_path, written, saved, pristine,
                   used, last, codecVars>>

\* TABLE.lock()
LLockTable(t) ==
    /\ pc[t].at = "lock_table"
    /\ locks.table.holder = 0
    /\ locks' = [locks EXCEPT !.table = MutexLock(@, t)]
    /\ IF pc[t].op = "select" /\ nb_rows > 0 THEN Goto(t, "select", "lock_pager", 0)
       ELSE IF pc[t].op = "insert" /\ ~TableFull(nb_rows)
            THEN Goto(t, "insert", "lock_pager", pc[t].arg)
       ELSE Goto(t, pc[t].op, "unlock_table", pc[t].arg)
    /\ UNCHANGED <<tableVars, codecVars, status>>

\* get_row, write_row: PAGER.lock()
LLockPager(t) ==
    /\ pc[t].at = "lock_pager"
    /\ locks.pager.holder = 0
    /\ locks' = [locks EXCEPT !.pager = MutexLock(@, t)]
    /\ Goto(t, pc[t].op, "unlock_pager", pc[t].arg)
    /\ UNCHANGED <<tableVars, codecVars, status>>

\* get_row, write_row: the work on the page and the return that drops the
\* PAGER guard; select goes on with its next row.
LUnlockPager(t) ==
    /\ pc[t].at = "unlock_pager"
    /\ locks' = [locks EXCEPT !.pager = MutexUnlock(@)]
    /\ IF pc[t].op = "insert"
       THEN LET w == WriteRow(nb_rows, pages, save_file, disk, pc[t].arg, "ok") IN
              /\ nb_rows' = w.nb_rows
              /\ pages' = w.pages
              /\ written' = IF w.res = "Ok" THEN Append(written, pc[t].arg) ELSE written
              /\ Goto(t, "insert", "unlock_table", None)
       ELSE LET r == GetRow(nb_rows, pages, save_file, disk, pc[t].arg, "ok") IN
              /\ pages' = r.pages
              /\ UNCHANGED <<nb_rows, written>>
              /\ IF pc[t].arg + 1 < nb_rows
                 THEN Goto(t, "select", "lock_pager", pc[t].arg + 1)
                 ELSE Goto(t, "select", "unlock_table", None)
    /\ UNCHANGED <<save_file, disk, saved, pristine, used, last, file_path,
                   codecVars, status>>

\* The return of the operation, which drops the TABLE guard; the save has
\* written the row count and the pages.
LUnlockTable(t) ==
    /\ pc[t].at = "unlock_table"
    /\ locks' = [locks EXCEPT !.table = MutexUnlock(@)]
    /\ IF pc[t].op = "save"
       THEN disk' = WriteTableToDisk(nb_rows, pages, disk, "p", NoFail)[2]
       ELSE disk' = disk
    /\ last' = Last(pc[t].op, None, "Ok", None, nb_rows, 0, 0)
    /\ pc' = [pc EXCEPT ![t] = Idle]
    /\ UNCHANGED <<nb_rows, pages, save_file, written, saved, pristine, used,
                   file_path, codecVars, status>>

LocksInit ==
    /\ nb_rows = 0
    /\ pages = NoPages
    /\ save_file = None
    /\ disk = [p \in Paths |-> Missing]
    /\ file_path = None
    /\ written = <<>>
    /\ saved = [p \in Paths |-> [known |-> FALSE, rows |-> <<>>]]
    /\ pristine = TRUE
    /\ used = [sets |-> 0, disk |-> 0]
    /\ last = Last("init", None, "Ok", None, 0, 0, 0)
    /\ crow = RowA
    /\ cres = CodecIdle
    /\ status = "starting"
    /\ locks = [table |-> MutexNew, pager |-> MutexNew]
    /\ pc = [t \in Threads |-> Idle]

LocksNext ==
    \E t \in Threads :
        \/ \E op \in LockOps : LBegin(t, op)
        \/ LForce(t)
        \/ LInitLockPager(t)
        \/ LInitUnlockPager(t)
        \/ LLockTable(t)
        \/ LLockPager(t)
        \/ LUnlockPager(t)
        \/ LUnlockTable(t)

SpecLocks == LocksInit /\ [][LocksNext]_vars

----------------------------------------------------------------------------
(* The operations on a table whose TABLE or PAGER mutex may be poisoned:   *)
(* Mutex::lock returns Err once a thread has panicked holding the guard.   *)

\* Table::get_row: the range test, then PAGER.lock().
GetRowLocked(lk, n, pgs, sf, dsk, row_number, io) ==
    IF ~GetRowOutOfRange(row_number, n) /\ lk.pager.poisoned THEN
        [res |-> "Err", val |-> "PoisonedPager", pages |-> pgs, page |-> 0, off |-> 0]
    ELSE GetRow(n, pgs, sf, dsk, row_number, io)

\* Table::write_row: the capacity test, then PAGER.lock().
WriteRowLocked(lk, n, pgs, sf, dsk, row, io) ==
    IF ~TableFull(n) /\ lk.pager.poisoned THEN
        [res |-> "PoisonedPager", nb_rows |-> n, pages |-> pgs, page |-> 0, off |-> 0]
    ELSE WriteRow(n, pgs, sf, dsk, row, io)

\* execute_select: TABLE.lock(), then the loop, whose first get_row fails on a
\* poisoned PAGER.
ExecuteSelectLocked(lk, n, pgs, sf, dsk) ==
    IF lk.table.poisoned THEN
        [res |-> "PoisonedTable", rows |-> <<>>, err |-> None, pages |-> pgs]
    ELSE IF n > 0 /\ lk.pager.poisoned THEN SelectError(<<>>, "PoisonedPager", pgs)
    ELSE ExecuteSelect(n, pgs, sf, dsk, -1)

\* execute_insert: TABLE.lock(), then table.write_row(row).
ExecuteInsertLocked(lk, n, pgs, sf, dsk, row) ==
    IF lk.table.poisoned THEN
        [res |-> "PoisonedTable", nb_rows |-> n, pages |-> pgs, page |-> 0, off |-> 0]
    ELSE WriteRowLocked(lk, n, pgs, sf, dsk, row, "ok")

\* write_table_to_disk: File::create(path), then TABLE.lock().
WriteTableToDiskLocked(lk, n, pgs, dsk, path, fail) ==
    IF fail.kind # "create" /\ lk.table.poisoned THEN
        <<"PoisonedTable", [dsk EXCEPT ![path] = File(0, <<>>)]>>
    ELSE WriteTableToDisk(n, pgs, dsk, path, fail)

\* Cursor::at_end.  The result is <<tag, row_num of the cursor>>.
CursorAtEnd(lk, n) ==
    IF lk.table.poisoned THEN <<"PoisonedTable", 0>> ELSE <<"Ok", n>>

\* Cursor::is_end_of_table: TABLE.lock().expect(..) panics on a poisoned
\* mutex.  The result is <<tag, the boolean returned>>.
CursorIsEndOfTable(lk, n, row_num) ==
    IF lk.table.poisoned THEN <<"Panic", FALSE>> ELSE <<"Ok", n <= row_num>>

\* A thread panics while it holds the guard of a mutex: the mutex is poisoned.
PanicHolding(which) ==
    /\ ~locks[which].poisoned
    /\ locks[which].holder = 0
    /\ locks' = [locks EXCEPT ![which] = [holder |-> 0, poisoned |-> TRUE]]
    /\ last' = Last("panic", which, "Poisoned", None, nb_rows, 0, 0)
    /\ UNCHANGED <<nb_rows, pages, save_file, disk, written, saved, pristine, used,
                   file_path, codecVars, status, pc>>

\* Table::write_row(row) by a caller that reached the table through TABLE.lock().
PWriteRow(row) ==
    /\ ~locks.table.poisoned
    /\ LET w == WriteRowLocked(locks, nb_rows, pages, save_file, disk, row, "ok") IN
         /\ nb_rows' = w.nb_rows
         /\ pages' = w.pages
         /\ written' = IF w.res = "Ok" THEN Append(written, row) ELSE written
         /\ last' = Last("write_row", row, w.res, None, nb_rows, w.page, w.off)
    /\ UNCHANGED <<save_file, disk, saved, pristine, used, file_path, codecVars,
                   procVars>>

\* Table::get_row(row_number) by a caller that reached the table through
\* TABLE.lock().
PGetRow(row_number) ==
    /\ ~locks.table.poisoned
    /\ LET r == GetRowLocked(locks, nb_rows, pages, save_file, disk, row_number, "ok") IN
         /\ pages' = r.pages
         /\ last' = Last("get_row", row_number, r.res, r.val, nb_rows, r.page, r.off)
    /\ UNCHANGED <<nb_rows, save_file, disk, written, saved, pristine, used,
                   file_path, codecVars, procVars>>

\* execute_select()
PSelect ==
    /\ LET x == ExecuteSelectLocked(locks, nb_rows, pages, save_file, disk) IN
         /\ pages' = x.pages
         /\ last' = Last("select", None, x.res, [rows |-> x.rows, err |-> x.err],
                         nb_rows, 0, 0)
    /\ UNCHANGED <<nb_rows, save_file, disk, written, saved, pristine, used,
                   file_path, codecVars, procVars>>

\* execute_insert(row)
PInsert(row) ==
    /\ LET w == ExecuteInsertLocked(locks, nb_rows, pages, save_file, disk, row) IN
         /\ nb_rows' = w.nb_rows
         /\ pages' = w.pages
         /\ written' = IF w.res = "Ok" THEN Append(written, row) ELSE written
         /\ last' = Last("insert", row, w.res, None, nb_rows, w.page, w.off)
    /\ UNCHANGED <<save_file, disk, saved, pristine, used, file_path, codecVars,
                   procVars>>

\* write_table_to_disk(path).  Table::iter, which it reads the pages through,
\* is explored with a PAGER that is not poisoned.
PSave(path, fail) ==
    /\ ~locks.pager.poisoned
    /\ LET w == WriteTableToDiskLocked(locks, nb_rows, pages, disk, path, fail) IN
         /\ disk' = w[2]
         /\ last' = Last("save", path, w[1], fail.kind, nb_rows, 0, 0)
    /\ saved' = IF fail.kind = "create" THEN saved
                ELSE [saved EXCEPT ![path] = [known |-> FALSE, rows |-> <<>>]]
    /\ used' = [used EXCEPT !.disk = @ + 1]
    /\ UNCHANGED <<nb_rows, pages, save_file, written, pristine, file_path,
                   codecVars, procVars>>

\* Cursor::at_end(table)
PCursorAtEnd ==
    /\ LET c == CursorAtEnd(locks, nb_rows) IN
         last' = Last("at_end", None, c[1], None, nb_rows, 0, c[2])
    /\ UNCHANGED <<nb_rows, pages, save_file, disk, written, saved, pristine, used,
                   file_path, codecVars, procVars>>

\* Cursor::is_end_of_table() of a cursor at row_num
PCursorIsEndOfTable(row_num) ==
    /\ LET c == CursorIsEndOfTable(locks, nb_rows, row_num) IN
         last' = Last("is_end_of_table", row_num, c[1], None, nb_rows, 0,
                      IF c[2] THEN 1 ELSE 0)
    /\ UNCHANGED <<nb_rows, pages, save_file, disk, written, saved, pristine, used,
                   file_path, codecVars, procVars>>

PoisonNext ==
    \/ \E which \in {"table", "pager"} : PanicHolding(which)
    \/ MayWrite /\ PWriteRow(RowA)
    \/ \E i \in RowNumbers : PGetRow(i)
    \/ nb_rows <= MaxSelectRows /\ PSelect
    \/ MayWrite /\ PInsert(RowNul)
    \/ \E path \in Paths, fail \in {NoFail, CreateFail} : MayDisk /\ PSave(path, fail)
    \/ PCursorAtEnd
    \/ \E row_num \in {0, nb_rows} : PCursorIsEndOfTable(row_num)

SpecPoison == Init /\ [][PoisonNext]_vars

----------------------------------------------------------------------------
(* The process: main loads the table from the file named on the command     *)
(* line, then runs statements and meta-commands until .exit.                *)

\* read_data_from_file(path).  bytes[..8] and bytes[page_range] are slices by
\* index: a file shorter than the row count, or one that ends inside a page,
\* is a panic.  The result is <<tag, row count, pages>>.
ReadDataFromFile(file, io) ==
    IF ~file.exists \/ io = "err" THEN <<"IoError", <<0, 0, 0, 0>>, <<>>>>
    ELSE IF file.len < HeaderSize THEN <<"Panic", <<0, 0, 0, 0>>, <<>>>>
    ELSE IF (file.len - HeaderSize) % PageSize # 0 THEN <<"Panic", <<0, 0, 0, 0>>, <<>>>>
    ELSE LET k == (file.len - HeaderSize) \div PageSize IN
         <<"Ok", IdFromBeBytes(ReadSlice(file.bytes, 0, HeaderSize)),
           SubSeq([j \in 1..k |-> ReadPageAt(file, HeaderSize + PageSize * (j - 1))], 1, k)>>

\* create_table(): with a FILE_PATH the row count and the pages of the file
\* become the table's.  The result is <<tag, nb_rows, pages>>.
CreateTable(fp, dsk, io) ==
    IF fp = None THEN <<"Ok", 0, NoPages>>
    ELSE LET r == ReadDataFromFile(dsk[fp], io) IN
         IF r[1] # "Ok" THEN <<r[1], 0, NoPages>>
         ELSE IF Len(r[3]) > MAX_PAGES THEN <<"Panic", 0, NoPages>>
         ELSE <<"Ok", NatOfId(r[2]),
                [n \in 0..(MAX_PAGES - 1) |->
                    IF n < Len(r[3]) THEN Resident(r[3][n + 1]) ELSE Absent]>>

\* How main goes on after create_table: an I/O error is std::process::exit(
\* EXIT_ERROR), a panic unwinds out of main.
MainStatus(tag) ==
    IF tag = "Ok" THEN "running"
    ELSE IF tag = "IoError" THEN "failed"
    ELSE "panicked"

\* main, up to its loop.
DoMain(io) ==
    /\ status = "starting"
    /\ io = "err" => (file_path # None /\ disk[file_path].exists)
    /\ LET c == CreateTable(file_path, disk, io) IN
         /\ status' = MainStatus(c[1])
         /\ nb_rows' = c[2]
         /\ pages' = c[3]
         /\ pristine' = (file_path = None)
         /\ last' = Last("main", file_path, c[1], None, nb_rows, 0, 0)
    /\ UNCHANGED <<save_file, disk, written, saved, used, file_path, codecVars,
                   locks, pc>>

\* A faulty .exit that saves the table to FILE_PATH on its way out.
MetaCommandExitSaving(n, pgs, dsk, fp) ==
    IF fp = None THEN dsk ELSE WriteTableToDisk(n, pgs, dsk, fp, NoFail)[2]

\* do_meta_command(".exit"): std::process::exit(EXIT_SUCCESS).  The result is
\* the file system the process leaves behind.
MetaCommandExit(n, pgs, dsk, fp) == dsk

\* do_meta_command(".exit")
DoExit ==
    /\ status' = "exited"
    /\ disk' = MetaCommandExit(nb_rows, pages, disk, file_path)
    /\ last' = Last(".exit", None, "Ok", None, nb_rows, 0, 0)
    /\ UNCHANGED <<nb_rows, pages, save_file, written, saved, pristine, used,
                   file_path, codecVars, locks, pc>>

\* do_meta_command of a line that is neither .exit nor .save
DoUnknownMetaCommand ==
    /\ last' = Last(".other", None, "UnknownMetaCommandError", None, nb_rows, 0, 0)
    /\ UNCHANGED <<nb_rows, pages, save_file, disk, written, saved, pristine, used,
                   file_path, codecVars, procVars>>

\* Pager::new(Some(path)) on a file that cannot be opened: the unwrap panics.
DoOpenFails(path, io) ==
    /\ ~disk[path].exists \/ io = "err"
    /\ status' = "panicked"
    /\ used' = [used EXCEPT !.disk = @ + 1]
    /\ last' = Last("open", path, "Panic", None, nb_rows, 0, 0)
    /\ UNCHANGED <<nb_rows, pages, save_file, disk, written, saved, pristine,
                   file_path, codecVars, locks, pc>>

\* The files found at the start: none, an empty file, the file of a table of
\* one row, and that file cut inside its page.
PageOfRowA == CopyFromSlice(PageDefault, 0, RowToBytes(RowA))
StartFiles ==
    {Missing, File(0, <<>>),
     WithHeader(1, HeaderSize, FileOfWrites(<<PageOfRowA>>, 1, 0)),
     WithHeader(1, HeaderSize, FileOfWrites(<<PageOfRowA>>, 0, ShortLen))}

MainInit ==
    /\ nb_rows = 0
    /\ pages = NoPages
    /\ save_file = None
    /\ disk \in [Paths -> StartFiles]
    /\ file_path \in {None} \cup Paths
    /\ written = <<>>
    /\ saved = [p \in Paths |-> [known |-> FALSE, rows |-> <<>>]]
    /\ pristine = TRUE
    /\ used = [sets |-> 0, disk |-> 0]
    /\ last = Last("init", None, "Ok", None, 0, 0, 0)
    /\ crow = RowA
    /\ cres = CodecIdle
    /\ status = "starting"
    /\ locks = [table |-> MutexNew, pager |-> MutexNew]
    /\ pc = [t \in Threads |-> Idle]

MainNext ==
    \/ \E io \in {"ok", "err"} : DoMain(io)
    \/ /\ status = "running"
       /\ \/ \E b \in {SelectBuffer, FillBuffer(2)} : MayRun(b) /\ DoStatement(b, -1)
          \/ \E arg \in Paths \cup {None} :
               \E fail \in MetaSaveFails(arg) : MayDisk /\ DoMetaCommandSave(arg, fail)
          \/ DoExit
          \/ DoUnknownMetaCommand
          \/ \E fp \in Paths : MayDisk /\ DoOpen(fp)
          \/ \E fp \in Paths, io \in {"ok", "err"} : MayDisk /\ DoOpenFails(fp, io)

SpecMain == MainInit /\ [][MainNext]_vars

----------------------------------------------------------------------------
(* The Pager over a file left by an earlier run: pages are loaded from it   *)
(* on demand and saves write back to it.                                    *)

BackedInit ==
    /\ nb_rows = 0
    /\ pages = NoPages
    /\ save_file = None
    /\ disk \in [Paths -> StartFiles]
    /\ file_path = None
    /\ written = <<>>
    /\ saved = [p \in Paths |-> [known |-> FALSE, rows |-> <<>>]]
    /\ pristine = TRUE
    /\ used = [sets |-> 0, disk |-> 0]
    /\ last = Last("init", None, "Ok", None, 0, 0, 0)
    /\ crow = RowA
    /\ cres = CodecIdle
    /\ ProcInit

BackedNext ==
    \/ \E fp \in Paths : MayDisk /\ DoOpen(fp)
    \/ \E fp \in Paths : MayDisk /\ DoSetOpenSaveFile(fp, "ok")
    \/ \E n \in {0, 1}, io \in {"ok", "err"} : DoGetPage(n, io)
    \/ \E i \in RowNumbers : DoGetRow(i, "ok")
    \/ MayWrite /\ DoWriteRow(RowNul, "ok")
    \/ \E fp \in Paths \cup {None} :
         \E fail \in SaveFails(fp) : MayDisk /\ DoSaveToDisk(fp, fail)

SpecBacked == BackedInit /\ [][BackedNext]_vars

----------------------------------------------------------------------------
(* Appends that fail: on a full table, on a row count past the capacity, on *)
(* a page load that fails, on a poisoned PAGER mutex.                        *)

\* Table::write_row(row), with the outcome io of the page load.
FWriteRow(row, io) ==
    /\ io = "err" =>
         /\ ~TableFull(nb_rows)
         /\ ~locks.pager.poisoned
         /\ GetPageDoesIo(pages, save_file, WriteRowPageNum(nb_rows))
    /\ LET w == WriteRowLocked(locks, nb_rows, pages, save_file, disk, row, io) IN
         /\ nb_rows' = w.nb_rows
         /\ pages' = w.pages
         /\ written' = IF w.res = "Ok" THEN Append(written, row) ELSE written
         /\ last' = Last("write_row", row, w.res, None, nb_rows, w.page, w.off)
    /\ UNCHANGED <<save_file, disk, saved, pristine, used, file_path, codecVars,
                   procVars>>

FailedAppendNext ==
    \/ \E fp \in Paths : MayDisk /\ DoOpen(fp)
    \/ \E n \in NbRowsChoices : MaySet /\ DoSetNbRows(n)
    \/ PanicHolding("pager")
    \/ \E row \in Rows, io \in {"ok", "err"} : MayWrite /\ FWriteRow(row, io)
    \/ \E i \in RowNumbers : PGetRow(i)

SpecFailedAppend == BackedInit /\ [][FailedAppendNext]_vars

----------------------------------------------------------------------------
(* The views Pager::get and Pager::get_mut hand out: a SlicePointer is a    *)
(* raw pointer into the Box of the page, with no lifetime, so the caller    *)
(* keeps it across later calls on the Pager.  pc[t] is what caller t holds. *)

ViewOps == {"get", "get_mut"}

\* Pager::get(page_num) / Pager::get_mut(page_num): the caller keeps the view.
VGet(t, acc, page_num) ==
    /\ pc[t].op = "idle"
    /\ LET g == IF acc = "get" THEN Get(pages, save_file, disk, page_num, "ok")
                ELSE GetMut(pages, save_file, disk, page_num, "ok")
       IN /\ pages' = g[2]
          /\ last' = Last(acc, page_num, g[1], "ok", nb_rows, 0, 0)
          /\ IF g[1] = "Ok" THEN Goto(t, acc, "view", page_num)
             ELSE pc' = pc
    /\ UNCHANGED <<nb_rows, save_file, disk, written, saved, pristine, used,
                   file_path, codecVars, status, locks>>

\* Pager::set_open_save_file(path): self.pages = [None; MAX_PAGES] drops the
\* Box of every resident page; the views into them dangle.
VSetOpenSaveFile(path) ==
    /\ LET r == SetOpenSaveFile(pages, save_file, disk, path, "ok") IN
         /\ save_file' = r[2]
         /\ pages' = r[3]
         /\ pristine' = (pristine /\ r[1] # "Ok")
         /\ last' = Last("set_open_save_file", path, r[1], None, nb_rows, 0, 0)
         /\ pc' = [t \in Threads |->
                     IF r[1] = "Ok" /\ pc[t].op \in ViewOps
                     THEN [pc[t] EXCEPT !.at = "dangling"] ELSE pc[t]]
    /\ used' = [used EXCEPT !.disk = @ + 1]
    /\ UNCHANGED <<nb_rows, disk, written, saved, file_path, codecVars, status, locks>>

\* <&[u8]>::from(slice_pointer): from_raw_parts over the pointer.  Through a
\* live view it reads the page; through a dangling one the behaviour is
\* undefined: the old bytes, other bytes or a fault.
ViewOutcomes(t) ==
    IF pc[t].at = "view" THEN {"Page"} ELSE {"StaleBytes", "OtherBytes", "Fault"}

VUse(t) ==
    /\ pc[t].op \in ViewOps
    /\ \E out \in ViewOutcomes(t) :
         last' = Last("use", pc[t].arg, out, None, nb_rows, 0, 0)
    /\ UNCHANGED <<nb_rows, pages, save_file, disk, written, saved, pristine, used,
                   file_path, codecVars, procVars>>

\* The caller lets go of the view.
VDrop(t) ==
    /\ pc[t].op \in ViewOps
    /\ pc' = [pc EXCEPT ![t] = Idle]
    /\ UNCHANGED <<tableVars, codecVars, status, locks>>

ViewsNext ==
    \/ \E t \in Threads, acc \in ViewOps, n \in {0, 1} : VGet(t, acc, n)
    \/ \E fp \in Paths : MayDisk /\ VSetOpenSaveFile(fp)
    \/ \E t \in Threads : VUse(t)
    \/ \E t \in Threads : VDrop(t)
    \/ MayWrite /\ DoWriteRow(RowA, "ok")

SpecViews == BackedInit /\ [][ViewsNext]_vars

----------------------------------------------------------------------------
(* slice_pointer.rs : a view into a buffer of orig_len bytes.  start is      *)
(* new_pointer - orig_pointer.  pc[t].arg is the view caller t holds.        *)

\* From<&[u8]> for SlicePointer, From<&mut [u8]> for SlicePointerMut
SliceFrom(orig_len) == [orig_len |-> orig_len, start |-> 0, new_len |-> orig_len]

\* set_len: assert!(new_pointer.add(new_len) <= orig_pointer.add(orig_len)).
\* The result is <<tag, view>>.
SliceSetLen(v, new_len) ==
    IF v.start + new_len <= v.orig_len THEN <<"Ok", [v EXCEPT !.new_len = new_len]>>
    ELSE <<"Panic", v>>

\* Add<usize> for &SlicePointer: the new pointer is asserted to lie within the
\* buffer, new_len is copied as it is.
SliceAdd(v, i) ==
    IF v.start + i <= v.orig_len THEN <<"Ok", [v EXCEPT !.start = v.start + i]>>
    ELSE <<"Panic", v>>

\* AddAssign<usize>: the pointer is moved, nothing is asserted.
SliceAddAssign(v, i) == <<"Ok", [v EXCEPT !.start = v.start + i]>>

\* The largest start explored, and the buffer lengths and operands.
MaxSliceStart == 10
SliceLens == {4, 8}
SliceOperands == {0, 1, 4, 5}

SNew(t, orig_len) ==
    /\ pc[t].op = "idle"
    /\ Goto(t, "slice", "live", SliceFrom(orig_len))
    /\ last' = Last("from", orig_len, "Ok", None, nb_rows, 0, 0)
    /\ UNCHANGED <<nb_rows, pages, save_file, disk, written, saved, pristine, used,
                   file_path, codecVars, status, locks>>

\* One operation on the view; a failed assertion unwinds and the view is gone.
SApply(t, op, r) ==
    /\ last' = Last(op, r[2].start, r[1], None, nb_rows, 0, r[2].new_len)
    /\ IF r[1] = "Ok" THEN Goto(t, "slice", "live", r[2])
       ELSE pc' = [pc EXCEPT ![t] = Idle]
    /\ UNCHANGED <<nb_rows, pages, save_file, disk, written, saved, pristine, used,
                   file_path, codecVars, status, locks>>

SSetLen(t, new_len) ==
    /\ pc[t].op = "slice"
    /\ SApply(t, "set_len", SliceSetLen(pc[t].arg, new_len))

SAdd(t, i) ==
    /\ pc[t].op = "slice"
    /\ SApply(t, "add", SliceAdd(pc[t].arg, i))

SAddAssign(t, i) ==
    /\ pc[t].op = "slice"
    /\ pc[t].arg.start + i <= MaxSliceStart
    /\ SApply(t, "add_assign", SliceAddAssign(pc[t].arg, i))

SliceNext ==
    \E t \in Threads :
        \/ \E orig_len \in SliceLens : SNew(t, orig_len)
        \/ \E n \in SliceOperands : SSetLen(t, n)
        \/ \E i \in SliceOperands : SAdd(t, i)
        \/ \E i \in SliceOperands : SAddAssign(t, i)

SpecSlice == Init /\ [][SliceNext]_vars

----------------------------------------------------------------------------
(* The codec on its own: a row is encoded, then the bytes are decoded. *)

CodecIds == {<<0, 0, 0, 0>>, <<0, 0, 0, 42>>, <<1, 2, 3, 4>>,
             <<LimbBase - 1, LimbBase - 1, LimbBase - 1, LimbBase - 1>>}
CodecUsernames ==
    {<<>>, <<97>>, <<97, 98, 105, 103, 97, 195, 171, 108>>, Str(UsernameMaxSize, 97),
     <<0, 97>>, <<97, 0>>, Str(UsernameMaxSize + 1, 97)}
CodecEmails ==
    {<<97, 64, 120>>, Str(EmailMaxSize, 98), <<98, 0>>, Str(EmailMaxSize + 1, 98)}

CodecInit ==
    /\ TableInit
    /\ crow \in {RowNew(i, u, e) : i \in CodecIds, u \in CodecUsernames, e \in CodecEmails}
    /\ cres = [stage |-> "new", bytes |-> <<>>, dec |-> <<"None", None, 0>>]

\* <[u8; Row::MAX_SIZE]>::from(row)
Encode ==
    /\ cres.stage = "new"
    /\ cres' = [cres EXCEPT !.stage = "encoded", !.bytes = RowToBytes(crow)]
    /\ UNCHANGED <<crow, tableVars, procVars>>

\* Row::try_from(&arr[..])
Decode ==
    /\ cres.stage = "encoded"
    /\ cres' = [cres EXCEPT !.stage = "decoded", !.dec = RowFromBytes(cres.bytes)]
    /\ UNCHANGED <<crow, tableVars, procVars>>

CodecNext == Encode \/ Decode

SpecCodec == CodecInit /\ [][CodecNext]_vars

----------------------------------------------------------------------------
(* Properties *)

\* What get_row(i) returns in the current state when its I/O succeeds.
RowAt(i) == GetRow(nb_rows, pages, save_file, disk, i, "ok")

WriteOps == {"write_row", "insert"}

\* C1: for every valid row (any 64-bit id, a username of at most 32 bytes, an
\* email of at most 255 bytes), decoding the 295 bytes of its encoding succeeds
\* and yields a row equal to it in all three fields.
C1_CodecRoundTrip ==
    (cres.stage = "decoded" /\ ValidRow(crow)) =>
        /\ Len(cres.bytes) = 295
        /\ cres.dec = <<"Ok", crow, 0>>

\* A valid row whose email ends with a NUL character decodes to another row.
C1_NulEmailDecoded ==
    /\ cres.stage = "decoded"
    /\ ValidRow(crow)
    /\ crow.email = <<98, 0>>
    /\ cres.dec[1] = "Ok"
    /\ cres.dec[2].email = <<98>>

\* C2: after n successful write_row calls on an empty table and a successful
\* save_to_disk(Some(path)), a fresh Pager and Table opened on path have
\* row count n and get_row(i) returns the i-th written row for every i < n.
C2_PersistenceRoundTrip ==
    (last.op = "open" /\ saved[last.arg].known) =>
        LET rows == saved[last.arg].rows IN
        /\ nb_rows = Len(rows)
        /\ \A i \in 0..(Len(rows) - 1) :
             RowAt(i).res = "Ok" /\ RowAt(i).val = rows[i + 1]

\* A file saved from a table holding rows has just been opened.
C2_OpenedSavedFile ==
    /\ last.op = "open"
    /\ saved[last.arg].known
    /\ Len(saved[last.arg].rows) = 2
    /\ saved[last.arg].rows[1] = RowA

C4_RowCounting ==
    /\ pristine => nb_rows = Len(written)
    /\ (last.op \in WriteOps /\ last.res = "Ok") => nb_rows = last.n + 1
    /\ last.op \in {"get_row", "select", "save_to_disk"} => nb_rows = last.n

\* Two rows were written to an empty table, which was then saved.
C4_TwoRowsSaved ==
    /\ pristine
    /\ Len(written) = 2
    /\ nb_rows = 2
    /\ last.op = "save_to_disk"
    /\ last.res = "Ok"

\* C5: if write_row(r) succeeds when the row count is n, then right afterwards
\* get_row(n) returns Some(Ok(r)) and get_row(n + 1) returns None.
C5_WriteThenRead ==
    (last.op = "write_row" /\ last.res = "Ok") =>
        /\ RowAt(last.n).res = "Ok"
        /\ RowAt(last.n).val = last.arg
        /\ RowAt(last.n + 1).res = "None"

\* A row whose email ends with a NUL character was written and reads back
\* as another row.
C5_NulRowWritten ==
    /\ last.op = "write_row"
    /\ last.res = "Ok"
    /\ last.arg = RowNul
    /\ RowAt(last.n).res = "Ok"
    /\ RowAt(last.n).val # RowNul

\* C6: once row i is written, get_row(i) returns the same row after any later
\* write_row, get_row, select, save_to_disk or set_open_save_file: no
\* operation overwrites or removes a written row.
C6_RowStability ==
    [][(/\ pristine
        /\ last'.op \in {"write_row", "get_row", "select", "save_to_disk",
                         "set_open_save_file"})
       => \A i \in 0..(Len(written) - 1) :
            LET before == GetRow(nb_rows, pages, save_file, disk, i, "ok")
                after == GetRow(nb_rows', pages', save_file', disk', i, "ok")
            IN after.res = before.res /\ after.val = before.val]_vars

\* set_open_save_file has succeeded on a table holding a written row.
C6_FileOpenedOverRows ==
    /\ last.op = "set_open_save_file"
    /\ last.res = "Ok"
    /\ Len(written) > 0
    /\ nb_rows = Len(written)

\* C7: for every i >= row count, get_row(i) returns None (not an error), makes
\* no page slot resident and leaves the row count unchanged.
C7_OutOfRangeRead ==
    [][(last'.op = "get_row" /\ last'.arg >= nb_rows)
       => (last'.res = "None" /\ pages' = pages /\ nb_rows' = nb_rows)]_vars

\* get_row was called beyond the row count of a table that holds rows.
C7_ReadBeyondCount ==
    /\ last.op = "get_row"
    /\ last.n > 0
    /\ last.arg > last.n
    /\ last.res = "None"

\* C8: get_row(i) and the write_row that creates row i both use page i / 13 and
\* byte offset (i % 13) * 295 (ROWS_PER_PAGE = 13), and so agree on where row i
\* is: get_row(i) returns the row that write_row put there.
C8_Addressing ==
    /\ ROWS_PER_PAGE = 13
    /\ (last.op \in WriteOps /\ last.res = "Ok") =>
         /\ last.page = last.n \div 13
         /\ last.off = (last.n % 13) * 295
    /\ (last.op = "get_row" /\ last.arg < last.n) =>
         /\ last.page = last.arg \div 13
         /\ last.off = (last.arg % 13) * 295
         /\ last.res = "Ok"
         /\ last.val = written[last.arg + 1]

\* The first row of the second page was read back.
C8_SecondPageRowRead ==
    /\ last.op = "get_row"
    /\ last.arg = 13
    /\ last.page = 1
    /\ last.off = 0
    /\ last.res = "Ok"

\* C9: the byte range [offset, offset + 295) of a row below MAX_ROWS overlaps
\* that of no other row of its page, ends at or before byte 4096 of the page,
\* and its page number is below MAX_PAGES.
C9_RangesDisjointInBounds ==
    (last.op \in WriteOps /\ last.res = "Ok") =>
        /\ last.n < MAX_ROWS
        /\ last.page < MAX_PAGES
        /\ last.off + 295 <= 4096
        /\ \A j \in 0..(last.n - 1) :
             WriteRowPageNum(j) = last.page =>
                \/ WriteRowOffset(j) + 295 <= last.off
                \/ last.off + 295 <= WriteRowOffset(j)

\* The last row of the last page was written.
C9_LastRowWritten ==
    /\ last.op \in WriteOps
    /\ last.res = "Ok"
    /\ last.n = 1299
    /\ last.page = 99
    /\ last.off = 12 * 295

\* C10 as stated: preparing an insert whose username is longer than 32 bytes
\* fails with StringTooLong("username", 32), and one whose email is longer
\* than 255 bytes fails with StringTooLong("email", 255).
C10_EachFieldReported ==
    (last.op = "prepare" /\ last.arg.kw = "insert" /\ last.arg.matches
       /\ last.arg.id_parses) =>
        /\ Len(last.arg.username) > 32 =>
             last.res = "StringTooLong username" /\ last.val = 32
        /\ Len(last.arg.email) > 255 =>
             last.res = "StringTooLong email" /\ last.val = 255

\* C10: preparing a well-formed insert (the pattern matches, the id parses)
\* whose username is longer than 32 bytes fails with
\* StringTooLong("username", 32), and one whose username fits and whose email
\* is longer than 255 bytes fails with StringTooLong("email", 255); in both
\* cases no row is written and the row count and all pages are unchanged, and
\* no insert with an oversized field is executed.
C10_OversizedRejected ==
    [][/\ (last'.op = "prepare" /\ last'.arg.kw = "insert" /\ last'.arg.matches
             /\ last'.arg.id_parses) =>
            /\ Len(last'.arg.username) > 32 =>
                 last'.res = "StringTooLong username" /\ last'.val = 32
            /\ (Len(last'.arg.username) <= 32 /\ Len(last'.arg.email) > 255) =>
                 last'.res = "StringTooLong email" /\ last'.val = 255
            /\ nb_rows' = nb_rows /\ pages' = pages /\ written' = written
       /\ last'.op = "insert" =>
            Len(last'.arg.username) <= 32 /\ Len(last'.arg.email) <= 255]_vars

\* An insert with a 256-byte email was refused on a table that holds rows.
C10_EmailRefused ==
    /\ last.op = "prepare"
    /\ last.res = "StringTooLong email"
    /\ last.val = 255
    /\ Len(last.arg.email) = 256
    /\ nb_rows > 0

PageAccessors == {"get_page", "get", "get_mut"}

\* C11: no row whose username exceeds 32 bytes or whose email exceeds 255 bytes
\* is ever encoded into a page: through prepare and insert, and through
\* Row::new and write_row, such a row is rejected, not stored cut to the width.
C11_NoSilentTruncation ==
    /\ \A k \in 1..Len(written) : ValidRow(written[k])
    /\ (last.op \in WriteOps /\ ~ValidRow(last.arg)) =>
         (last.res # "Ok" /\ nb_rows = last.n)

\* A row with a 33-byte username was stored with its username cut to 32 bytes.
C11_LongRowStored ==
    /\ last.op = "write_row"
    /\ last.arg = RowLong
    /\ last.res = "Ok"
    /\ RowAt(last.n).res = "Ok"
    /\ RowAt(last.n).val.username = Str(32, 100)

\* C12: on a Pager opened over a file that holds the header and one page,
\* requesting a never-accessed page below MAX_PAGES that lies entirely beyond
\* the end of the file succeeds (no error, no panic) with a page of 4096 zeros.
C12_LazyLoadBeyondEof ==
    [][(/\ last'.op \in PageAccessors
        /\ last'.val = "ok"
        /\ save_file # None
        /\ disk[save_file].len = 8 + 4096
        /\ last'.arg < MAX_PAGES
        /\ ~pages[last'.arg].resident
        /\ 8 + 4096 * last'.arg >= disk[save_file].len)
       => (last'.res = "Ok" /\ pages'[last'.arg] = Resident(PageDefault))]_vars

\* Pager::get has panicked on page 1 of an open file of one header and one page.
C12_GetBeyondEofPanicked ==
    /\ last.op = "get"
    /\ last.arg = 1
    /\ last.res = "Panic"
    /\ save_file # None
    /\ disk[save_file].len = 8 + 4096
    /\ ~pages[1].resident

\* C13: every page accessor of the Pager called with page_num >= MAX_PAGES
\* (100) returns the capacity error as a value, never panics, and leaves all
\* page slots unchanged.
C13_PageNumberCapacity ==
    [][(last'.op \in PageAccessors /\ last'.arg >= 100)
       => (last'.res = "MaxPageReached" /\ pages' = pages)]_vars

\* Pager::get_mut has panicked on page number MAX_PAGES.
C13_GetMutPanicked ==
    /\ last.op = "get_mut"
    /\ last.arg = MAX_PAGES
    /\ last.res = "Panic"

\* C14: once a page slot is Resident it stays Resident, with its buffer, after
\* every get_page, get, get_mut, save_to_disk and set_open_save_file of the
\* same Pager.
C14_NoEviction ==
    [][last'.op \in PageAccessors \cup {"save_to_disk", "set_open_save_file"}
       => \A n \in 0..(MAX_PAGES - 1) :
            pages[n].resident => pages'[n] = pages[n]]_vars

\* set_open_save_file has succeeded and no slot of a table with rows is resident.
C14_SlotsEmptied ==
    /\ last.op = "set_open_save_file"
    /\ last.res = "Ok"
    /\ nb_rows > 0
    /\ ResidentSlots(pages) = {}

\* C15: in every reachable state the row count is at most MAX_ROWS (1300),
\* also when it was set through set_nb_rows or read from a file's header.
C15_RowCountBound == nb_rows <= 1300

\* set_nb_rows has set the row count above MAX_ROWS.
C15_CountSetAboveMax ==
    /\ last.op = "set_nb_rows"
    /\ last.arg = MAX_ROWS + 1
    /\ nb_rows = MAX_ROWS + 1

\* C16: a successful save_to_disk leaves a file whose first 8 bytes are the
\* big-endian row count, followed by the 4096 bytes of each resident page in
\* ascending slot order and nothing for absent slots: 8 + 4096 * (number of
\* resident slots) bytes.
C16_SaveLayout ==
    (last.op = "save_to_disk" /\ last.res = "Ok") =>
        LET file == disk[IF last.arg # None THEN last.arg ELSE save_file]
            bufs == ResidentPages(pages)
        IN /\ file.len = 8 + 4096 * Cardinality(ResidentSlots(pages))
           /\ ReadSlice(file.bytes, 0, 8) = IdToBeBytes(IdOfNat(nb_rows))
           /\ \A j \in 1..Len(bufs) :
                ReadPageAt(file, 8 + 4096 * (j - 1)) = bufs[j]

\* A table of one row and one resident page was saved to a 4096-byte file.
C16_HeaderlessFileSaved ==
    /\ last.op = "save_to_disk"
    /\ last.res = "Ok"
    /\ last.arg # None
    /\ nb_rows = 1
    /\ ResidentSlots(pages) = {0}
    /\ disk[last.arg].len = 4096

\* C17: save_to_disk(None) on a Pager with no open backing file, and .save with
\* no path argument and no configured file path, fail with
\* NoFileToWriteProvided, write nothing and leave the row count and all pages
\* unchanged.
C17_SaveWithoutTarget ==
    [][(\/ (last'.op = "save_to_disk" /\ last'.arg = None /\ save_file = None)
        \/ (last'.op = ".save" /\ last'.arg = None /\ file_path = None))
       => /\ last'.res = "NoFileToWriteProvided"
          /\ disk' = disk
          /\ nb_rows' = nb_rows
          /\ pages' = pages]_vars

\* save_to_disk(None) was refused on a table with rows and no backing file.
C17_SaveRefused ==
    /\ last.op = "save_to_disk"
    /\ last.arg = None
    /\ save_file = None
    /\ last.res = "NoFileToWriteProvided"
    /\ nb_rows > 0

\* C18: after successful inserts r_0 .. r_(n-1) into an empty table, select
\* returns exactly [r_0, ..., r_(n-1)] in insertion order.
C18_SelectReturnsTable ==
    (/\ last.op = "select"
     /\ pristine
     /\ \A k \in 1..Len(written) : written[k] \in InsertedRows)
    => (last.res = "Ok" /\ last.val.rows = written)

\* Two rows were inserted, the second with an email ending in a NUL character,
\* and select has run.
C18_NulInsertSelected ==
    /\ last.op = "select"
    /\ Len(written) = 2
    /\ written[1].email = <<102, 64, 120>>
    /\ written[2].email = <<103, 0>>
    /\ last.res = "Ok"
    /\ Len(last.val.rows) = 2

\* C19: when get_row fails at row i during a select, the select reports that
\* error together with the rows 0 .. i-1 decoded before it.
C19_SelectPartialResult ==
    (last.op = "select" /\ last.res = "Err") =>
        LET bad == {k \in 0..(nb_rows - 1) : RowAt(k).res = "Err"}
            i == SetMin(bad)
        IN /\ bad # {}
           /\ last.val.err = RowAt(i).val
           /\ Len(last.val.rows) = i
           /\ \A k \in 0..(i - 1) : last.val.rows[k + 1] = RowAt(k).val

\* A select has failed at its second row and reports the first one.
C19_FailedAfterOneRow ==
    /\ last.op = "select"
    /\ last.res = "Err"
    /\ last.val.err = "FromUtf8Error"
    /\ Len(last.val.rows) = 1
    /\ last.val.rows[1] = RowA

\* C20: when row i fails to decode during a select, every decodable row j with
\* i < j < row count is still visited and returned, and the decode error of
\* row i is surfaced.
C20_ScanNotAborted ==
    last.op = "select" =>
        LET ok == {k \in 0..(nb_rows - 1) : RowAt(k).res = "Ok"} IN
        /\ Len(last.val.rows) = Cardinality(ok)
        /\ \A k \in ok : \E j \in 1..Len(last.val.rows) :
                           last.val.rows[j] = RowAt(k).val
        /\ ok # 0..(nb_rows - 1) => last.res = "Err"

\* A select over an undecodable row followed by a decodable one has returned
\* no row.
C20_LaterRowDropped ==
    /\ last.op = "select"
    /\ last.res = "Err"
    /\ written = <<RowCut, RowA>>
    /\ RowAt(1).res = "Ok"
    /\ last.val.rows = <<>>

\* The positions of a thread at which it reads or writes the page slots or the
\* row count.
Inside(t) == pc[t].at \in {"locked", "header"}

\* C21: with several threads issuing select, insert and save, no two
\* operations are at the same time inside their access to the page slots or the
\* row count, and every select, insert and save runs from its first step to
\* its last while its thread holds the TABLE lock.
C21_MutualExclusion ==
    /\ \A t1, t2 \in Threads : t1 # t2 => ~(Inside(t1) /\ Inside(t2))
    /\ \A t \in Threads : pc[t].op # "idle" => locks.table.holder = t

\* A save holds the lock and has written its header into a file that another
\* save, which does not hold the lock, has since emptied.
C21_FileEmptiedUnderSave ==
    \E t1, t2 \in Threads :
        /\ At(t1, "save", "header")
        /\ locks.table.holder = t1
        /\ At(t2, "save", "created")
        /\ pc[t1].arg = pc[t2].arg
        /\ disk[pc[t1].arg].len = 0
        /\ nb_rows > 0

\* The operations that take the TABLE or the PAGER lock.
LockedOps ==
    {"select", "insert", "get_row", "write_row", "save", "at_end", "is_end_of_table"}

\* The result l of an operation is a poisoning error returned as a value.
PoisonReported(l) ==
    IF l.op = "select" THEN
        l.res = "PoisonedTable" \/ (l.res = "Err" /\ l.val.err = "PoisonedPager")
    ELSE IF l.op = "get_row" THEN l.res = "Err" /\ l.val = "PoisonedPager"
    ELSE l.res \in {"PoisonedTable", "PoisonedPager"}

\* C22: once the TABLE or the PAGER lock is poisoned, every select, insert,
\* get_row, write_row, save, Cursor::at_end and Cursor::is_end_of_table returns
\* a poisoning error as a value: none panics, and none changes the pages or the
\* row count.  (A save whose File::create fails is left out: it returns the
\* I/O error before it comes to the lock.)
C22_PoisonedLock ==
    [][(/\ locks.table.poisoned \/ locks.pager.poisoned
        /\ last'.op \in LockedOps
        /\ last'.op = "save" => last'.val = NoFail.kind)
       => (PoisonReported(last') /\ pages' = pages /\ nb_rows' = nb_rows)]_vars

\* Cursor::is_end_of_table has panicked on a poisoned TABLE of one row.
C22_EndOfTablePanicked ==
    /\ last.op = "is_end_of_table"
    /\ last.res = "Panic"
    /\ locks.table.poisoned
    /\ nb_rows > 0

\* C23: the only step that ends the process is the .exit command: no capacity,
\* I/O, format or lock error, and no failure to open or read the save file at
\* startup, exits or aborts it.
C23_OnlyExitTerminates ==
    [][(status \in {"starting", "running"} /\ status' \notin {"starting", "running"})
       => last'.op = ".exit"]_vars

\* main has ended the process with EXIT_ERROR because the file named on the
\* command line does not exist.
C23_StartupExited ==
    /\ status = "failed"
    /\ last.op = "main"
    /\ last.res = "IoError"
    /\ file_path # None
    /\ ~disk[file_path].exists

\* C24: .exit ends the process and writes no file: whatever rows were inserted,
\* each file holds after .exit what the last .save (or the start) left in it,
\* since no step but a .save writes a file.
C24_NoAutoSaveOnExit ==
    [][/\ last'.op = ".exit" => (status' = "exited" /\ disk' = disk)
       /\ last'.op # ".save" => disk' = disk]_vars

\* The process has ended by .exit with a row inserted since the start and a
\* FILE_PATH whose file does not hold it.
C24_ExitedUnsaved ==
    /\ status = "exited"
    /\ last.op = ".exit"
    /\ Len(written) > 0
    /\ file_path # None
    /\ disk[file_path].exists
    /\ disk[file_path] #
         WithHeader(nb_rows, HeaderSize,
                    FileOfWrites(ResidentPages(pages), Len(ResidentPages(pages)), 0))

\* C25: whenever writing the table to disk fails (the file cannot be created,
\* a write fails, a write is short), the .save command returns an error: it
\* never reports success for a save that failed.
C25_SaveErrorsSurfaced ==
    (last.op = ".save" /\ last.val \in {"IoError", "NotAllBytesWritten"})
    => last.res # "Ok"

\* .save p has returned Ok although the write of the only page failed and the
\* file holds the row count alone.
C25_FailedSaveReportedOk ==
    /\ last.op = ".save"
    /\ last.arg # None
    /\ last.val = "IoError"
    /\ last.res = "Ok"
    /\ nb_rows > 0
    /\ disk[last.arg].len = HeaderSize

\* C26: save_to_disk, whether it succeeds or fails at any step, leaves the set
\* of resident slots, the bytes of every resident page and the row count as
\* they were; and after a failed save every get_row(i), i < row count, returns
\* the same row as before the save.
C26_SaveKeepsCache ==
    [][last'.op = "save_to_disk" =>
        /\ ResidentSlots(pages') = ResidentSlots(pages)
        /\ pages' = pages
        /\ nb_rows' = nb_rows
        /\ last'.res # "Ok" =>
             \A i \in 0..(nb_rows - 1) :
                LET before == GetRow(nb_rows, pages, save_file, disk, i, "ok")
                    after == GetRow(nb_rows', pages', save_file', disk', i, "ok")
                IN after.res = before.res /\ after.val = before.val]_vars

\* A save to the open file has failed after emptying it, and the row of the
\* table, whose page was never loaded, no longer reads as the file's row.
C26_RowLostByFailedSave ==
    /\ last.op = "save_to_disk"
    /\ last.res = "IoError"
    /\ save_file # None
    /\ nb_rows = 1
    /\ ~pages[0].resident
    /\ disk[save_file].len = 0
    /\ RowAt(0).res = "Ok"
    /\ RowAt(0).val # RowA

\* C27: for every row with a username of at most 32 bytes and an email of at
\* most 255 bytes, the encoding has exactly 295 bytes: bytes [0,8) are the id
\* in big-endian order, bytes [8,40) are the username followed by zero bytes,
\* bytes [40,295) are the email followed by zero bytes; the three ranges are
\* pairwise disjoint and together cover [0,295).
C27_EncodedLayout ==
    (cres.stage # "new" /\ ValidRow(crow)) =>
        LET b == cres.bytes
            u == crow.username
            e == crow.email
        IN /\ Len(b) = 295
           /\ \A k \in 1..4 :
                /\ b[2 * k - 1] = crow.id[k] \div 256
                /\ b[2 * k] = crow.id[k] % 256
           /\ \A k \in 1..32 : b[8 + k] = IF k <= Len(u) THEN u[k] ELSE 0
           /\ \A k \in 1..255 : b[40 + k] = IF k <= Len(e) THEN e[k] ELSE 0
           /\ ID_RANGE = 0..7 /\ USERNAME_RANGE = 8..39 /\ EMAIL_RANGE = 40..294
           /\ ID_RANGE \cap USERNAME_RANGE = {}
           /\ ID_RANGE \cap EMAIL_RANGE = {}
           /\ USERNAME_RANGE \cap EMAIL_RANGE = {}
           /\ ID_RANGE \cup USERNAME_RANGE \cup EMAIL_RANGE = 0..294

\* A row with the largest id, a username that fills its field and a short
\* email has been encoded: byte 39 is the username's last, byte 43 is padding.
C27_FullFieldsEncoded ==
    /\ cres.stage = "encoded"
    /\ crow.id = <<LimbBase - 1, LimbBase - 1, LimbBase - 1, LimbBase - 1>>
    /\ Len(crow.username) = UsernameMaxSize
    /\ Len(crow.email) = 3
    /\ cres.bytes[40] = 97 /\ cres.bytes[44] = 0

\* C28: get_page on a Resident slot reads nothing from the file and returns the
\* buffer already in memory: the call succeeds, the slot keeps its bytes (those
\* written since the page was loaded included) and no slot or file changes,
\* whatever the backing file holds for that page.
C28_ResidentHit ==
    [][(/\ last'.op = "get_page"
        /\ last'.arg < MAX_PAGES
        /\ pages[last'.arg].resident) =>
            /\ last'.res = "Ok"
            /\ ~GetPageDoesIo(pages, save_file, last'.arg)
            /\ pages'[last'.arg].buf = pages[last'.arg].buf
            /\ pages' = pages
            /\ disk' = disk]_vars

\* get_page has returned page 0 with a row written since it was loaded, while
\* the backing file holds other bytes for that page.
C28_WrittenPageReturned ==
    /\ last.op = "get_page" /\ last.arg = 0 /\ last.res = "Ok"
    /\ save_file # None
    /\ Len(written) > 0
    /\ pages[0].resident
    /\ pages[0].buf # ReadPageAt(disk[save_file], GetPageOffset(0))

\* A get_page step on an Absent slot below MAX_PAGES.
GetPageMiss ==
    /\ last'.op = "get_page"
    /\ last'.arg < MAX_PAGES
    /\ ~pages[last'.arg].resident

\* No slot other than page_num changes state or content.
OtherSlotsKept(page_num) ==
    \A n \in 0..(MAX_PAGES - 1) : n # page_num => pages'[n] = pages[n]

\* C29 as stated: get_page on an Absent slot with page_num < MAX_PAGES ends
\* with that slot Resident; with no backing file open the page is 4096 zero
\* bytes; no other slot changes state or content.
C29_LoadOnMissAlways ==
    [][GetPageMiss =>
        /\ pages'[last'.arg].resident
        /\ save_file = None =>
             \A o \in 0..(PageSize - 1) : Byte(pages'[last'.arg].buf, o) = 0
        /\ OtherSlotsKept(last'.arg)]_vars

\* C29, amended: get_page on an Absent slot with page_num < MAX_PAGES ends
\* with that slot Resident unless the seek or the read on the backing file
\* fails with an error other than end of file; in that case the call returns
\* IoError and the slot stays Absent.  With no backing file open the call
\* succeeds and the page is 4096 zero bytes.  In every case no other slot
\* changes state or content.
C29_LoadOnMiss ==
    [][GetPageMiss =>
        /\ last'.val = "ok" =>
             /\ last'.res = "Ok"
             /\ pages'[last'.arg].resident
        /\ last'.val = "err" =>
             /\ save_file # None
             /\ last'.res = "IoError"
             /\ pages' = pages
        /\ save_file = None =>
             /\ last'.res = "Ok"
             /\ \A o \in 0..(PageSize - 1) : Byte(pages'[last'.arg].buf, o) = 0
        /\ OtherSlotsKept(last'.arg)]_vars

\* Page 0 has been loaded by get_page from the file of a one-row table: no row
\* count was read and nothing written, so only get_page can have filled it.
C29_PageLoadedFromFile ==
    /\ last.op = "get_page" /\ last.arg = 0 /\ last.res = "Ok"
    /\ nb_rows = 0 /\ Len(written) = 0
    /\ save_file # None
    /\ ResidentSlots(pages) = {0}
    /\ pages[0].buf = PageOfRowA

\* The number of bytes the file holds of page page_num, counted from the
\* page's offset 8 + 4096 * page_num.
BytesOfPageInFile(file, page_num) == file.len - (8 + 4096 * page_num)

C31_AccessorsReadSameRegion ==
    [][(/\ last'.op \in PageAccessors
        /\ last'.val = "ok"
        /\ save_file # None
        /\ last'.arg < MAX_PAGES
        /\ ~pages[last'.arg].resident) =>
            /\ last'.res = "Ok"
            /\ pages'[last'.arg].resident
            /\ \A o \in 0..4095 :
                 Byte(pages'[last'.arg].buf, o) =
                    IF 8 + 4096 * last'.arg + o < disk[save_file].len
                    THEN Byte(disk[save_file].bytes, 8 + 4096 * last'.arg + o)
                    ELSE 0]_vars

\* Pager::get has loaded page 0 with the bytes at file offset 0, which are not
\* the bytes at offset 8 that get_page loads.
C31_GetLoadedFromOffsetZero ==
    /\ last.op = "get" /\ last.arg = 0 /\ last.res = "Ok"
    /\ save_file # None
    /\ pages[0].resident
    /\ pages[0].buf = ReadPageAt(disk[save_file], 0)
    /\ pages[0].buf # ReadPageAt(disk[save_file], 8)
    /\ GetPage(NoPages, save_file, disk, 0, "ok")[2][0].buf # pages[0].buf

\* Whether the file holds the bytes of resident page k at offset 8 + 4096 * k.
PlacedAtOwnOffset(file, k) ==
    /\ file.len >= 8 + 4096 * (k + 1)
    /\ ReadPageAt(file, 8 + 4096 * k) = pages[k].buf

\* C32: in a successful save, the bytes of resident page k are at file offset
\* 8 + 4096 * k if and only if every slot below k is resident too.
C32_SaveWithHoles ==
    (last.op = "save_to_disk" /\ last.res = "Ok") =>
        LET file == disk[IF last.arg # None THEN last.arg ELSE save_file]
        IN \A k \in ResidentSlots(pages) :
             PlacedAtOwnOffset(file, k) <=> (\A j \in 0..(k - 1) : pages[j].resident)

\* Slots 0 and 1 were both resident in a successful save_to_disk, and the file
\* holds neither page at its own offset: it is 8192 bytes long and page 0,
\* which holds a row, starts at offset 0.
C32_NoHolesYetMisplaced ==
    /\ last.op = "save_to_disk" /\ last.res = "Ok" /\ last.arg # None
    /\ ResidentSlots(pages) = {0, 1}
    /\ nb_rows = 1
    /\ disk[last.arg].len = 4096 * 2
    /\ ~PlacedAtOwnOffset(disk[last.arg], 0)
    /\ ~PlacedAtOwnOffset(disk[last.arg], 1)

\* C33: in a table created empty with no backing file and modified only by
\* write_row, with any get_row, select and save in between, the resident slots
\* are exactly the prefix 0 .. ceil(row_count / ROWS_PER_PAGE) - 1, so that no
\* resident slot has an absent slot below it when the table is saved.
C33_ContiguousResidency ==
    save_file = None =>
        /\ ResidentSlots(pages) = 0..((nb_rows + 13 - 1) \div 13 - 1)
        /\ \A k \in ResidentSlots(pages) : \A j \in 0..(k - 1) : pages[j].resident

\* A table of 14 rows, whose last row opened page 1, has been saved.
C33_TwoPagesSaved ==
    /\ last.op = "save_to_disk" /\ last.res = "Ok"
    /\ save_file = None
    /\ nb_rows = 14
    /\ ResidentSlots(pages) = {0, 1}

\* C34: after a file of n rows is opened and some get_row and write_row calls
\* are made, a successful save_to_disk(None) leaves a file from which a fresh
\* Pager reads every row of the table, original or appended, as the table read
\* it before the save, rows on pages never loaded included.
C34_SaveBackLosesNothing ==
    [][(/\ last'.op = "save_to_disk"
        /\ last'.arg = None
        /\ last'.res = "Ok"
        /\ save_file # None) =>
            \A i \in 0..(nb_rows - 1) :
               LET before == GetRow(nb_rows, pages, save_file, disk, i, "ok")
                   reopened == GetRow(nb_rows, NoPages, save_file, disk', i, "ok")
               IN reopened.res = before.res /\ reopened.val = before.val]_vars

\* A file of one row was opened and saved back with its page never loaded: the
\* save succeeded and left an empty file.
C34_UnloadedPageDropped ==
    /\ last.op = "save_to_disk" /\ last.arg = None /\ last.res = "Ok"
    /\ save_file # None
    /\ nb_rows = 1 /\ Len(written) = 0
    /\ ResidentSlots(pages) = {}
    /\ disk[save_file].len = 0

\* C35: get_row(i) and select never change the row count, a file or any byte
\* of an already resident page; the only slots they change are Absent slots of
\* pages they address (the page of row i; the pages of rows below the row
\* count), which become Resident.
C35_ReadsDoNotMutate ==
    [][last'.op \in {"get_row", "select"} =>
        /\ nb_rows' = nb_rows
        /\ disk' = disk
        /\ save_file' = save_file
        /\ \A k \in 0..(MAX_PAGES - 1) :
             /\ pages[k].resident => pages'[k] = pages[k]
             /\ pages'[k] # pages[k] =>
                  /\ pages'[k].resident
                  /\ IF last'.op = "get_row"
                     THEN last'.arg < nb_rows /\ k = last'.arg \div 13
                     ELSE nb_rows > 0 /\ k <= (nb_rows - 1) \div 13]_vars

\* get_row(0) has read a row from the page of an opened file: slot 0, Absent
\* after the open, is Resident and holds the file's page.
C35_ReadLoadedPage ==
    /\ last.op = "get_row" /\ last.arg = 0 /\ last.res = "Ok"
    /\ save_file # None
    /\ nb_rows > 0 /\ Len(written) = 0
    /\ ResidentSlots(pages) = {0}
    /\ pages[0].buf = ReadPageAt(disk[save_file], 8)
    /\ pages[0].buf # PageDefault

\* The rows of a table of n rows that are read back: those of the first two
\* pages and the last two (all of them up to 28 rows).
ProbedRows(n) == {i \in 0..(n - 1) : i < 2 * 13 \/ i >= n - 2}

\* C36: whenever write_row returns an error (TableFull, PoisonedPager or a
\* get_page error), the row count is unchanged, no page slot and no file is
\* changed, and get_row(i) with i below the row count returns what it returned
\* before (read back for the rows of ProbedRows; every slot is compared).
C36_FailedAppendChangesNothing ==
    [][(last'.op = "write_row" /\ last'.res # "Ok") =>
        /\ last'.res \in {"TableFull", "PoisonedPager", "IoError", "MaxPageReached"}
        /\ nb_rows' = nb_rows
        /\ \A k \in 0..(MAX_PAGES - 1) : pages'[k] = pages[k]
        /\ disk' = disk
        /\ \A i \in ProbedRows(nb_rows) :
             LET before == GetRowLocked(locks, nb_rows, pages, save_file, disk, i, "ok")
                 after == GetRowLocked(locks', nb_rows', pages', save_file', disk', i, "ok")
             IN after.res = before.res /\ after.val = before.val]_vars

\* write_row has failed on the load of the page of an opened one-row file.
C36_AppendFailedOnLoad ==
    /\ last.op = "write_row" /\ last.res = "IoError"
    /\ save_file # None
    /\ nb_rows = 1 /\ last.n = 1
    /\ ~pages[0].resident

\* The lock thread t is about to take, if any, and whether t has to wait.
Wants(t, m) ==
    \/ m = "table" /\ pc[t].at = "lock_table"
    \/ m = "pager" /\ pc[t].at \in {"lock_pager", "init_lock_pager"}
Blocked(t) ==
    \/ \E m \in {"table", "pager"} : Wants(t, m) /\ locks[m].holder # 0
    \/ pc[t].at = "force" /\ status = "initialising"

\* C37: with two threads running select, insert, save, the initialisation of
\* the table and the cursor operations, no reachable state is a deadlock: while
\* a thread is inside an operation, some such thread can take its next step.
\* No thread takes TABLE while it holds PAGER, and no thread takes a lock it
\* holds.
C37_DeadlockFreedom ==
    /\ (\E t \in Threads : pc[t].op # "idle") =>
          (\E t \in Threads : pc[t].op # "idle" /\ ~Blocked(t))
    /\ \A t \in Threads :
          /\ Wants(t, "table") => locks.pager.holder # t /\ locks.table.holder # t
          /\ Wants(t, "pager") => locks.pager.holder # t
          /\ locks.pager.holder = t /\ pc[t].op \in {"select", "insert"}
               /\ pc[t].at = "unlock_pager" => locks.table.holder = t

\* Thread 1 holds TABLE inside a select and is about to take PAGER, while
\* thread 2 waits for TABLE inside an insert.
C37_BothThreadsInside ==
    /\ pc[1].op = "select" /\ pc[1].at = "lock_pager"
    /\ locks.table.holder = 1
    /\ pc[2].op = "insert" /\ pc[2].at = "lock_table"
    /\ Blocked(2) /\ ~Blocked(1)
    /\ nb_rows > 0

\* C38: every view the Pager has returned from get or get_mut points to the
\* buffer of a resident page for as long as its holder can use it; no later
\* call on the Pager, set_open_save_file included, frees or replaces that
\* buffer.
C38_ViewsStayValid ==
    \A t \in Threads :
        pc[t].op \in ViewOps =>
            /\ pc[t].at = "view"
            /\ pages[pc[t].arg].resident

\* A view from Pager::get on page 0 was used after set_open_save_file had
\* emptied the slots: the read went through a pointer to a freed buffer.
C38_DanglingViewUsed ==
    /\ last.op = "use" /\ last.arg = 0 /\ last.res = "Fault"
    /\ pc[1].op = "get" /\ pc[1].at = "dangling" /\ pc[1].arg = 0
    /\ save_file # None
    /\ ~pages[0].resident

\* C39: read_data_from_file returns a value for every file it can read:
\* NotEnoughData when the file has fewer than 8 bytes, FileIsCorrupted when
\* the bytes after the 8-byte header are not a whole number of 4096-byte
\* pages, Ok otherwise; it never panics, and page k of an Ok result holds the
\* file bytes at offset 8 + 4096 * k.
C39_OpenFileParsing ==
    (/\ last.op = "main"
     /\ file_path # None
     /\ last.res # "IoError") =>
        LET f == disk[file_path] IN
        /\ last.res # "Panic"
        /\ IF f.len < 8 THEN last.res = "NotEnoughData"
           ELSE IF (f.len - 8) % 4096 # 0 THEN last.res = "FileIsCorrupted"
           ELSE /\ last.res = "Ok"
                /\ \A k \in 0..((f.len - 8) \div 4096 - 1) :
                     /\ pages[k].resident
                     /\ pages[k].buf = ReadPageAt(f, 8 + 4096 * k)

\* main was started on an empty file: read_data_from_file panicked on
\* bytes[..8].
C39_EmptyFilePanicked ==
    /\ last.op = "main" /\ last.res = "Panic"
    /\ status = "panicked"
    /\ file_path # None
    /\ disk[file_path].exists
    /\ disk[file_path].len = 0

\* C40: after any sequence of offset additions (+, +=) and set_len calls on a
\* view built from a buffer of length L, the view satisfies start + len <= L;
\* an operation that would move the start or the end of the view past the
\* end of the buffer fails its assertion instead.
C40_SliceViewBounds ==
    \A t \in Threads :
        pc[t].op = "slice" =>
            pc[t].arg.start + pc[t].arg.new_len <= pc[t].arg.orig_len

\* A view of a 4-byte buffer was moved by += 5: it starts past the end of the
\* buffer and no assertion has failed.
C40_StartPastBuffer ==
    /\ last.op = "add_assign" /\ last.res = "Ok"
    /\ pc[1].op = "slice"
    /\ pc[1].arg.orig_len = 4
    /\ pc[1].arg.start = 5
    /\ pc[1].arg.new_len = 4

====
